---------------------------- MODULE Spec2Model ----------------------------
(***************************************************************************)
(* Model of the control core of raseone19/ME-410: the control cycle of     *)
(* loop() (src/src/main.cpp) with its per-motor safety state machine and   *)
(* PI step (src/src/control/pi_controller.cpp), the published-distance     *)
(* exchange with servoSweepTask (src/src/sensors/tof_sensor.cpp) under     *)
(* distanceMutex, and the runtime configuration exchange with the serial   *)
(* command handler (src/src/utils/command_handler.cpp) under configMutex.  *)
(*                                                                         *)
(* Units.  Percent quantities (setpoints, pressures, duties) are integers  *)
(* in milli-percent (100 % = 100000).  Scale factors are per-mille         *)
(* (1.0 = 1000).  Distances are centimetres.  The PI integrator is kept in *)
(* units of 1/150000 so that error * dt (dt = 1/50 s) and the anti-windup  *)
(* bound 100/Ki are integers.  Times are milliseconds.                     *)
(***************************************************************************)
EXTENDS Integers, Sequences, FiniteSets, TLC

(***************************************************************************)
(* Bounds of the model (not program constants).                            *)
(***************************************************************************)
\* pins.h sets NUM_MOTORS = 5; every loop over the motors runs the same
\* body per index, the model instantiates ModelMotors of them.
ModelMotors == 1
\* number of control cycles a behaviour of Spec may run
MaxCycles == 3
\* number of control cycles a behaviour of LockSpec may run
LockCycles == 1
\* number of serial commands a behaviour of LockSpec may receive
MaxCommands == 2
\* servoSweepTask keeps five sector slots with one hard-coded test per
\* sector; the model instantiates the first ModelSectors of them, the last
\* one closed on its upper boundary as the code's last sector is
ModelSectors == 2
\* number of control cycles a behaviour of SweepSpec may run
SweepCycles == 1
\* motors and control cycles of PairSpec
PairMotors == 2
PairCycles == 3
\* control cycles of ClockSpec
ClockCycles == 2
\* calls of the PI step in PISpec
MaxPISteps == 6
\* control cycles of GuardSpec
GuardCycles == 3
\* number of iterations of servoSweepTask (a forward and a backward
\* traversal each) a behaviour of SweepSpec may run
MaxSweeps == 1

\* the motors of the build
BuildMotors == 0 .. (ModelMotors - 1)
Sectors == 0 .. (ModelSectors - 1)

(***************************************************************************)
(* Program constants.                                                      *)
(***************************************************************************)
CTRL_DT_MS == 50
RELEASE_TIME_MS == 600
REVERSE_DUTY_PCT == 60000
SENTINEL_DISTANCE == 999
INVALID_SETPOINT == -1000
SETPOINT_FAR == 50000
SETPOINT_MEDIUM == 75000
SETPOINT_CLOSE == 100000
SECURITY_OFFSET == 5000
DISTANCE_CLOSE_MIN == 50
DISTANCE_CLOSE_MAX_BASE == 100
DISTANCE_MEDIUM_MAX_BASE == 200
DISTANCE_FAR_MAX_BASE == 300
FORCE_SCALE_MIN == 600
FORCE_SCALE_MAX == 1000
DIST_SCALE_MIN == 500
DIST_SCALE_MAX == 1500
POT_MV_MAX == 3300
DUTY_MIN == -100000
DUTY_MAX == 100000
MIN_RUN == 40000
\* gains in hundredths: Kp = 12.0, Ki = 48.0
Kp100 == 1200
Ki100 == 4800
\* integrator units per 1.0 and per (milli-percent error * dt)
INTEG_UNIT == 150000
INTEG_PER_ERR == 3
\* servo_config.h: the compile-time sweep arc and step; the manual angle
SERVO_MIN_ANGLE == 5
SERVO_MAX_ANGLE == 175
SERVO_STEP == 5
SERVO_MANUAL_DEFAULT == 90
NUM_SECTORS == 5
\* ultrasonic_sensor.h: the range the ultrasonic sensor is trusted in, cm
ULTRASONIC_MIN_CM == 30
ULTRASONIC_MAX_CM == 500
READ_ERROR == -1
SECTOR_MOTOR_1_MIN == 5
SECTOR_MOTOR_1_MAX == 45
SECTOR_MOTOR_2_MIN == 45
SECTOR_MOTOR_2_MAX == 90
SECTOR_MOTOR_3_MIN == 90
SECTOR_MOTOR_3_MAX == 135
SECTOR_MOTOR_4_MIN == 135
SECTOR_MOTOR_4_MAX == 175
\* servo_config.h defines four sectors; the fifth pair of boundaries, which
\* tof_sensor.cpp uses, is defined nowhere in the sources.  It is taken as
\* the remainder of the arc: it starts where the fourth sector ends and
\* closes on the arc's maximum.
SECTOR_MOTOR_5_MIN == SECTOR_MOTOR_4_MAX
SECTOR_MOTOR_5_MAX == SERVO_MAX_ANGLE

(***************************************************************************)
(* Inputs of the environment, drawn from small sets.                       *)
(***************************************************************************)
\* normalized pad readings (result of mapPressureToPercent, clamped 0..100 %)
PressureVals == {0, 100000}
\* potentiometer readings in mV (pot 1: force scale, pot 2: distance scale)
Pot1Mv == {1650, 3300}
Pot2Mv == {1650}
\* sector minima the scanner may publish: Close (80 cm) and out of bounds
SampleVals == {80, 500}
\* samples of tofGetDistance during a detailed sweep: a read error and two
\* valid distances
SweepSamples == {READ_ERROR, 80, 120}
\* sweep configurations of SweepSpec, each accepted by the setters: a sweep
\* that steps onto the boundary between the first two sectors, one that
\* steps over it, and one whose arc ends inside the second sector
SweepConfigs == {[min |-> 25, max |-> 85, step |-> 20],
                 [min |-> 30, max |-> 70, step |-> 20],
                 [min |-> 5, max |-> 60, step |-> 20]}
DefaultSweep == [min |-> SERVO_MIN_ANGLE, max |-> SERVO_MAX_ANGLE,
                 step |-> SERVO_STEP]
\* arcs of ClassifySpec: the compile-time arc and the widest arc that
\* SWEEP:MIN and SWEEP:MAX accept
ClassifyArcs == {DefaultSweep, [min |-> 0, max |-> 180, step |-> 1]}
\* arguments of setPIGains, in hundredths: negative, zero and positive
\* gains, the documented pairs 0.15/0.60 and 12/48 among them
GainVals == {-4800, -1200, -60, -15, -1, 0, 1, 15, 60, 1200, 4800}
\* values an uninitialised float of the stack frame may hold
StackGarbage == {0, 100000}
\* time that may pass between two looks at the clock by loop()
TickSteps == {50, 600}
\* serial commands: the routed command and the integer after its last colon
CommandOps == {"SWEEP:ENABLE", "SWEEP:DISABLE", "SWEEP:MIN", "SWEEP:MAX",
               "SWEEP:STEP", "SWEEP:STATUS", "SERVO:ANGLE", "MODE", "UNKNOWN"}
CommandArgs == {10, 200}
Commands == [op : CommandOps, arg : CommandArgs]
NoCmd == [op |-> "none", arg |-> 0, reply |-> "none"]

States == {"NORMAL_OPERATION", "OUT_OF_RANGE_DEFLATING",
           "OUT_OF_RANGE_RELEASING", "WAITING_FOR_VALID_READING"}
Ranges == {"RANGE_UNKNOWN", "RANGE_FAR", "RANGE_MEDIUM", "RANGE_CLOSE",
           "RANGE_OUT_OF_BOUNDS"}

VARIABLES
    \* ---- control context (loop(), core 1)
    loop_pc,            \* position of loop()
    ctrl_i,             \* index of the motor loop at lines 541-580
    millis,             \* the millisecond clock
    current_time,       \* local of loop(): millis() sampled at line 474
    last_control_ms,
    cycles_left,        \* control cycles the behaviour may still run
    pressure_normalized,
    force_scale,
    distance_scale,
    min_distance_cm,    \* local of the motor loop, per motor
    current_range,
    setpoints,
    current_state,
    prev_state,         \* history: current_state when the cycle's state machine started
    reverse_start_time,
    duty_cycles,
    temp_setpoints,     \* locals of loop(): "uninit" until assigned
    temp_pressures,
    temp_duties,
    integrators,
    last_duty,
    motor_cmd,          \* last command handed to the motor driver, per motor
    shared_duty_cycles,
    last_good,          \* history: value of the last successful locked read, per motor
    read_ok,            \* history: whether this cycle's read of the slot got the lock
    Kp,                 \* proportional gain of pi_controller.cpp, in hundredths
    Ki,                 \* integral gain of pi_controller.cpp, in hundredths
    scenario,           \* history: leading steps of the end-to-end scenario the PI inputs have followed, -1 once they left it
    since_run,          \* history: milliseconds that really passed since the cycle body last ran
    shared_ultrasonic_distance, \* ultrasonic_sensor.cpp line 14
    \* ---- shared with the scan context
    distanceMutex,      \* holder: "none", "loop" or "scan"
    configMutex,
    shared_min_distance,
    shared_best_angle,
    shared_tof_distances, \* core0_tasks.cpp line 22: the distances handed to telemetry
    \* ---- scan context (servoSweepTask, core 0)
    scan_pc,
    is_sweep_enabled,   \* local of servoSweepTask (line 268)
    manual_angle,       \* local (line 269)
    min_angle,          \* local (line 270)
    max_angle,          \* local (line 271)
    step_size,          \* local (line 272)
    completed_sector,   \* local of servoSweepTask
    min_distance_sector,\* local: running minimum per sector
    angle_of_min_sector,\* local: angle of the running minimum per sector
    sector_updated_forward,
    sector_updated_backward,
    pass,               \* what the task is doing: "none", "forward", "backward", "manual"
    angle,              \* loop variable of the sweep loops (lines 455, 536)
    scan_distance,      \* local "distance": the last sample of tofGetDistance
    sector_index,       \* local: the sector of the last sampled angle
    last_read,          \* history: the values copied by the last successful config read
    pass_samples,       \* history: the samples of the current traversal, in order
    pass_writes,        \* history: writes of each sector's slot in the current traversal
    slots_before,       \* history: the shared slots when the current traversal started
    pass_timeouts,      \* history: failed takes of the distance lock in the current traversal
    sweeps_left,        \* sweep iterations the behaviour may still run
    \* ---- runtime configuration (command_handler.cpp)
    sweep_enabled,
    servo_min_angle,
    servo_max_angle,
    servo_step,
    servo_manual_angle,
    cmd,                \* command being processed by processSerialCommand
    response,           \* last serial response of the command handler
    cmds_left           \* serial commands the behaviour may still receive

\* the indices of the per-motor arrays (NUM_MOTORS entries each)
Motors == DOMAIN current_state

ctrlVars == <<loop_pc, ctrl_i, millis, current_time, last_control_ms, cycles_left,
              pressure_normalized, force_scale, distance_scale, min_distance_cm,
              current_range, setpoints, current_state, prev_state,
              reverse_start_time, duty_cycles, temp_setpoints, temp_pressures,
              temp_duties, integrators, last_duty, motor_cmd, shared_duty_cycles,
              last_good, read_ok, Kp, Ki, scenario, since_run,
                   shared_ultrasonic_distance>>
sharedVars == <<distanceMutex, configMutex, shared_min_distance,
               shared_best_angle, shared_tof_distances>>
localCfg == <<manual_angle, min_angle, max_angle, step_size, last_read>>
sweepVars == <<angle_of_min_sector, sector_updated_forward,
              sector_updated_backward, pass, angle, scan_distance,
              sector_index,
              pass_samples, pass_writes, slots_before, pass_timeouts,
              sweeps_left>>
scanVars == <<scan_pc, is_sweep_enabled, completed_sector, min_distance_sector,
             localCfg, sweepVars>>
cfgVars == <<sweep_enabled, servo_min_angle, servo_max_angle, servo_step,
             servo_manual_angle, cmd, response, cmds_left>>
vars == <<ctrlVars, sharedVars, scanVars, cfgVars>>


(***************************************************************************)
(* Pure functions of the control cycle.                                    *)
(***************************************************************************)
Clamp(x, lo, hi) == IF x < lo THEN lo ELSE IF x > hi THEN hi ELSE x

\* uint32_t arithmetic.  A 32-bit pattern is held as the integer it denotes
\* in two's complement: the unsigned value v as v below 2^31 and as v - 2^32
\* from 2^31 on, so that 0xFFFFFFFF is -1 and the clock wraps from -1 to 0.
\* a + d for a small non-negative d, modulo 2^32
U32Add(a, d) ==
    IF a > 2147483647 - d
    THEN (a - 2147483647 - 1) + (d - 2147483647 - 1)
    ELSE a + d

\* a - b modulo 2^32, computed on the 16-bit halves of the patterns
U32Sub(a, b) ==
    LET lo == (a % 65536) - (b % 65536)
        borrow == IF lo < 0 THEN 1 ELSE 0
        hi == ((a \div 65536) - (b \div 65536) - borrow) % 65536
    IN  (IF hi >= 32768 THEN hi - 65536 ELSE hi) * 65536 + (lo + borrow * 65536)

\* unsigned a >= c for a constant c below 2^31
U32AtLeast(a, c) == a < 0 \/ a >= c

\* variant of the subtraction in a wider signed type: the difference of the
\* two unsigned values without the reduction modulo 2^32; a negative
\* difference, which passes no test against a period, is given as 0
ElapsedMs_wide(now, then) ==
    IF (now < 0) = (then < 0)
    THEN (IF now >= then THEN now - then ELSE 0)
    ELSE IF now < 0 THEN U32Sub(now, then) ELSE 0

\* main.cpp lines 477, 603, 631: current_time - then, both uint32_t
ElapsedMs(now, then) == U32Sub(now, then)

\* main.cpp calculateForceScale: per-mille scale from pot 1
calculateForceScale(pot_mv) ==
    LET pot_normalized == Clamp((pot_mv * 1000) \div POT_MV_MAX, 0, 1000)
    IN  FORCE_SCALE_MIN + (pot_normalized * (FORCE_SCALE_MAX - FORCE_SCALE_MIN)) \div 1000

\* main.cpp calculateDistanceScale: per-mille scale from pot 2
calculateDistanceScale(pot_mv) ==
    LET pot_normalized == Clamp((pot_mv * 1000) \div POT_MV_MAX, 0, 1000)
    IN  DIST_SCALE_MIN + (pot_normalized * (DIST_SCALE_MAX - DIST_SCALE_MIN)) \div 1000

\* main.cpp lines 532-534: threshold = 50 + (base - 50) * scale
distance_close_max(ds) ==
    DISTANCE_CLOSE_MIN + ((DISTANCE_CLOSE_MAX_BASE - DISTANCE_CLOSE_MIN) * ds) \div 1000
distance_medium_max(ds) ==
    DISTANCE_CLOSE_MIN + ((DISTANCE_MEDIUM_MAX_BASE - DISTANCE_CLOSE_MIN) * ds) \div 1000
distance_far_max(ds) ==
    DISTANCE_CLOSE_MIN + ((DISTANCE_FAR_MAX_BASE - DISTANCE_CLOSE_MIN) * ds) \div 1000

\* variant without the lower bound of the Close range (line 203)
getDistanceRange_unfloored(distance, ds) ==
    IF distance < 0 THEN "RANGE_UNKNOWN"
    ELSE IF distance >= distance_medium_max(ds) /\ distance <= distance_far_max(ds)
         THEN "RANGE_FAR"
    ELSE IF distance >= distance_close_max(ds) /\ distance < distance_medium_max(ds)
         THEN "RANGE_MEDIUM"
    ELSE IF distance < distance_close_max(ds)
         THEN "RANGE_CLOSE"
    ELSE "RANGE_OUT_OF_BOUNDS"

\* tof_sensor.cpp getDistanceRange, with DISTANCE_MEDIUM_MIN, DISTANCE_FAR_MIN
\* and DISTANCE_FAR_MAX standing for the dynamic thresholds of tof_sensor.h
getDistanceRange(distance, ds) ==
    IF distance < 0 THEN "RANGE_UNKNOWN"
    ELSE IF distance >= distance_medium_max(ds) /\ distance <= distance_far_max(ds)
         THEN "RANGE_FAR"
    ELSE IF distance >= distance_close_max(ds) /\ distance < distance_medium_max(ds)
         THEN "RANGE_MEDIUM"
    ELSE IF distance >= DISTANCE_CLOSE_MIN /\ distance < distance_close_max(ds)
         THEN "RANGE_CLOSE"
    ELSE "RANGE_OUT_OF_BOUNDS"

\* variant whose default branch (line 227) returns 0 instead of -1
calculateSetpoint_zero(range, baseline) ==
    CASE range = "RANGE_FAR" ->
            IF baseline > 0 THEN baseline + SECURITY_OFFSET ELSE SETPOINT_FAR
      [] range = "RANGE_MEDIUM" -> SETPOINT_MEDIUM
      [] range = "RANGE_CLOSE" -> SETPOINT_CLOSE
      [] OTHER -> 0

\* tof_sensor.cpp calculateSetpoint
calculateSetpoint(range, baseline) ==
    CASE range = "RANGE_FAR" ->
            IF baseline > 0 THEN baseline + SECURITY_OFFSET ELSE SETPOINT_FAR
      [] range = "RANGE_MEDIUM" -> SETPOINT_MEDIUM
      [] range = "RANGE_CLOSE" -> SETPOINT_CLOSE
      [] OTHER -> INVALID_SETPOINT

\* variant without the sentinel test of line 553 and without the negative
\* result of calculateSetpoint: every distance yields the Far setpoint
MotorSetpoint_far(distance, range, fs) == (SETPOINT_FAR * fs) \div 1000

\* variant that scales whatever calculateSetpoint returns (no test at line 572)
MotorSetpoint_scaled(distance, range, fs) ==
    IF distance >= SENTINEL_DISTANCE THEN INVALID_SETPOINT
    ELSE (calculateSetpoint(range, 0) * fs) \div 1000

\* main.cpp lines 553-576: the setpoint of one motor from its distance
MotorSetpoint(distance, range, fs) ==
    IF distance >= SENTINEL_DISTANCE THEN INVALID_SETPOINT
    ELSE LET base_setpoint == calculateSetpoint(range, 0)
         IN  IF base_setpoint > 0 THEN (base_setpoint * fs) \div 1000
             ELSE base_setpoint

(***************************************************************************)
(* PI step of one motor (pi_controller.cpp lines 133-184).  loop() calls   *)
(* it as controlStepNormalized on float percentages; the step is that of   *)
(* controlStepNewtons.                                                     *)
(***************************************************************************)
\* line 144: DUTY_MAX / max(Ki, 0.0001); a gain below the model's unit of
\* 0.01 is floored at that unit
IntegratorMax == (100 * INTEG_UNIT * 100) \div (IF Ki >= 1 THEN Ki ELSE 1)

\* variant without the clamp of lines 145-150
PIIntegrator_unclamped(integ, sp, p) == integ + (sp - p) * INTEG_PER_ERR

\* lines 140-150: integrate the error, then clamp
PIIntegrator(integ, sp, p) ==
    Clamp(integ + (sp - p) * INTEG_PER_ERR, -IntegratorMax, IntegratorMax)

\* line 153, the integral term Ki * integrator in milli-percent; the
\* integrator is brought to hundreds of its unit first, which keeps the
\* product within 32 bits
IntegralTerm(integ) == (Ki * (integ \div 100)) \div (INTEG_UNIT \div 1000)

\* variant without the integral term
PIDuty_proportional(integ, sp, p) ==
    Clamp((Kp * (sp - p)) \div 100, DUTY_MIN, DUTY_MAX)

\* lines 153-157: the PI law and the saturation
PIDuty(integ, sp, p) ==
    Clamp((Kp * (sp - p)) \div 100 + IntegralTerm(PIIntegrator(integ, sp, p)),
          DUTY_MIN, DUTY_MAX)

\* variant of the deadband that gates forward commands only
PICommand_forward(integ, sp, p) ==
    LET duty == PIDuty(integ, sp, p)
    IN  IF duty >= MIN_RUN THEN duty
        ELSE IF duty < 0 THEN duty
        ELSE 0

\* lines 159-170: the deadband

PICommand(integ, sp, p) ==
    LET duty == PIDuty(integ, sp, p)
    IN  IF duty >= MIN_RUN THEN duty
        ELSE IF duty <= -MIN_RUN THEN duty
        ELSE 0

\* the command the PI step hands to the motor driver (lines 176-183)
Forward(d) == [dir |-> "forward", duty |-> d]
Reverse(d) == [dir |-> "reverse", duty |-> d]
Brake == [dir |-> "brake", duty |-> 0]
PIMotorCommand(command) ==
    IF command > 0 THEN Forward(command)
    ELSE IF command < 0 THEN Reverse(-command)
    ELSE Brake

(***************************************************************************)
(* Sector geometry of servoSweepTask.                                      *)
(***************************************************************************)
SectorMin(s) ==
    <<SECTOR_MOTOR_1_MIN, SECTOR_MOTOR_2_MIN, SECTOR_MOTOR_3_MIN,
      SECTOR_MOTOR_4_MIN, SECTOR_MOTOR_5_MIN>>[s + 1]
SectorMax(s) ==
    <<SECTOR_MOTOR_1_MAX, SECTOR_MOTOR_2_MAX, SECTOR_MOTOR_3_MAX,
      SECTOR_MOTOR_4_MAX, SECTOR_MOTOR_5_MAX>>[s + 1]

\* one test of the chain of lines 476-485: [MIN, MAX) for the first four
\* sectors, [MIN, MAX] for the fifth
InSector(s, a) ==
    /\ a >= SectorMin(s)
    /\ IF s = NUM_SECTORS - 1 THEN a <= SectorMax(s) ELSE a < SectorMax(s)

\* lines 475-486 (also 307-317, 556-567): the first sector whose test
\* passes, -1 when none does
SectorOf(a) ==
    IF \E s \in 0 .. (NUM_SECTORS - 1) : InSector(s, a)
    THEN CHOOSE s \in 0 .. (NUM_SECTORS - 1) :
            /\ InSector(s, a)
            /\ \A t \in 0 .. (s - 1) : ~InSector(t, a)
    ELSE -1

\* a write of entry k of shared_tof_distances.  The array has NUM_MOTORS
\* entries that only serialPrintTask reads; a specification follows the
\* entries it was started with and drops the writes of the others.
storeTofDistance(k, d) ==
    IF k \in DOMAIN shared_tof_distances
    THEN [shared_tof_distances EXCEPT ![k] = d]
    ELSE shared_tof_distances

\* lines 320-323, 489-492 and 570-573: the scan context stores a valid
\* sample in the entry of the sector of the servo position
storeLiveSample(s, d) ==
    IF s >= 0 /\ d > 0 THEN storeTofDistance(s, d) ELSE shared_tof_distances

\* the two shared arrays as one value
Slots(dist, best) == [dist |-> dist, angle |-> best]
\* the scan context has not read the configuration yet
NoRead == [enabled |-> FALSE, manual |-> -1, min |-> -1, max |-> -1, step |-> -1]


(***************************************************************************)
(* The state after setup(): every motor braked and in NORMAL_OPERATION, no *)
(* sector published yet, sweep enabled with the compile-time arc.  InitFrom*)
(* leaves open the motors, the reading of the clock, the gains and the     *)
(* distances published so far.                                             *)
(***************************************************************************)
InitFollowing(tele, ms, t0, kp, ki, slots, cycles, commands, sweep, a) ==
    /\ loop_pc = "cmd"
    /\ ctrl_i = 0
    /\ millis = t0
    /\ current_time = t0
    /\ last_control_ms = t0
    /\ cycles_left = cycles
    /\ pressure_normalized = [i \in ms |-> 0]
    /\ force_scale = FORCE_SCALE_MAX
    /\ distance_scale = 1000
    /\ min_distance_cm = [i \in ms |-> 0]
    /\ current_range = [i \in ms |-> "RANGE_UNKNOWN"]
    /\ setpoints = [i \in ms |-> 0]
    /\ current_state = [i \in ms |-> "NORMAL_OPERATION"]
    /\ prev_state = [i \in ms |-> "NORMAL_OPERATION"]
    /\ reverse_start_time = [i \in ms |-> 0]
    /\ duty_cycles = [i \in ms |-> 0]
    /\ temp_setpoints = [i \in ms |-> 0]
    /\ temp_pressures = [i \in ms |-> 0]
    /\ temp_duties = [i \in ms |-> 0]
    /\ integrators = [i \in ms |-> 0]
    /\ last_duty = [i \in ms |-> 0]
    /\ motor_cmd = [i \in ms |-> Brake]
    /\ shared_duty_cycles = [i \in ms |-> 0]
    /\ last_good = [i \in ms |-> SENTINEL_DISTANCE]
    /\ read_ok = [i \in ms |-> TRUE]
    /\ Kp = kp
    /\ Ki = ki
    /\ scenario = 0
    /\ since_run = 0
    /\ shared_ultrasonic_distance = SENTINEL_DISTANCE
    /\ distanceMutex = "none"
    /\ configMutex = "none"
    /\ shared_min_distance = slots
    /\ shared_best_angle = [s \in Sectors |-> SERVO_MIN_ANGLE]
    /\ shared_tof_distances = [k \in tele |-> 0]
    /\ scan_pc = "cfg"
    /\ is_sweep_enabled = FALSE
    /\ manual_angle = SERVO_MANUAL_DEFAULT
    /\ min_angle = SERVO_MIN_ANGLE
    /\ max_angle = SERVO_MAX_ANGLE
    /\ step_size = SERVO_STEP
    /\ completed_sector = -1
    /\ min_distance_sector = [s \in Sectors |-> SENTINEL_DISTANCE]
    /\ angle_of_min_sector = [s \in Sectors |-> SectorMin(s)]
    /\ sector_updated_forward = [s \in Sectors |-> FALSE]
    /\ sector_updated_backward = [s \in Sectors |-> FALSE]
    /\ pass = "none"
    /\ angle = a
    /\ scan_distance = 0
    /\ sector_index = -1
    /\ last_read = NoRead
    /\ pass_samples = << >>
    /\ pass_writes = [s \in Sectors |-> 0]
    /\ slots_before = Slots(shared_min_distance, shared_best_angle)
    /\ pass_timeouts = 0
    /\ sweeps_left = MaxSweeps
    /\ sweep_enabled = TRUE
    /\ servo_min_angle = sweep.min
    /\ servo_max_angle = sweep.max
    /\ servo_step = sweep.step
    /\ servo_manual_angle = SERVO_MANUAL_DEFAULT
    /\ cmd = NoCmd
    /\ response = "none"
    /\ cmds_left = commands

\* the state after setup() for the specifications without telemetry: no
\* entry of shared_tof_distances is followed
InitFrom(ms, t0, kp, ki, slots, cycles, commands, sweep, a) ==
    InitFollowing({}, ms, t0, kp, ki, slots, cycles, commands, sweep, a)

\* tof_sensor.cpp line 39: no sector published
Unpublished == [s \in Sectors |-> SENTINEL_DISTANCE]

\* setup(): the motors of the build, the clock at 0, the compile-time gains
InitAt(cycles, commands, sweep, a) ==
    InitFrom(BuildMotors, 0, Kp100, Ki100, Unpublished, cycles, commands, sweep, a)

InitState(cycles, commands, sweep) ==
    InitAt(cycles, commands, sweep, SERVO_MIN_ANGLE)

InitWith(cycles, commands) == InitState(cycles, commands, DefaultSweep)

Init == InitWith(MaxCycles, 0)

(***************************************************************************)
(* Control context: loop() of main.cpp.                                    *)
(***************************************************************************)
\* time passes while loop() idles between two control cycles
Tick ==
    /\ loop_pc = "gate"
    /\ cycles_left > 0
    /\ ~U32AtLeast(ElapsedMs(millis, last_control_ms), CTRL_DT_MS)
    /\ \E d \in TickSteps :
          /\ millis' = U32Add(millis, d)
          /\ since_run' = since_run + d
    /\ UNCHANGED <<loop_pc, ctrl_i, current_time, last_control_ms, cycles_left,
                   pressure_normalized, force_scale, distance_scale, min_distance_cm,
                   current_range, setpoints, current_state, prev_state,
                   reverse_start_time, duty_cycles, temp_setpoints, temp_pressures,
                   temp_duties, integrators, last_duty, motor_cmd,
                   shared_duty_cycles, last_good, read_ok, Kp, Ki, scenario,
                   shared_ultrasonic_distance>>
    /\ UNCHANGED <<sharedVars, scanVars, cfgVars>>

\* processSerialCommand with no serial data available (line 234)
NoCommand ==
    /\ loop_pc = "cmd"
    /\ loop_pc' = "gate"
    /\ UNCHANGED <<ctrl_i, millis, current_time, last_control_ms, cycles_left,
                   pressure_normalized, force_scale, distance_scale, min_distance_cm,
                   current_range, setpoints, current_state, prev_state,
                   reverse_start_time, duty_cycles, temp_setpoints, temp_pressures,
                   temp_duties, integrators, last_duty, motor_cmd,
                   shared_duty_cycles, last_good, read_ok, Kp, Ki, scenario, since_run,
                   shared_ultrasonic_distance>>
    /\ UNCHANGED <<sharedVars, scanVars, cfgVars>>

\* the period gate of line 477
GateOpen == U32AtLeast(ElapsedMs(millis, last_control_ms), CTRL_DT_MS)

\* line 477 false: the cycle body is skipped, delay(1), next iteration
CtrlSkip ==
    /\ loop_pc = "gate"
    /\ ~GateOpen
    /\ loop_pc' = "cmd"
    /\ current_time' = millis
    /\ UNCHANGED <<ctrl_i, millis, last_control_ms, cycles_left,
                   pressure_normalized, force_scale, distance_scale, min_distance_cm,
                   current_range, setpoints, current_state, prev_state,
                   reverse_start_time, duty_cycles, temp_setpoints, temp_pressures,
                   temp_duties, integrators, last_duty, motor_cmd,
                   shared_duty_cycles, last_good, read_ok, Kp, Ki, scenario, since_run,
                   shared_ultrasonic_distance>>
    /\ UNCHANGED <<sharedVars, scanVars, cfgVars>>

\* lines 474-534: the gate passes; pads and potentiometers are read, the
\* scales and thresholds recomputed
CtrlBegin ==
    /\ loop_pc = "gate"
    /\ cycles_left > 0
    /\ GateOpen
    /\ current_time' = millis
    /\ last_control_ms' = millis
    /\ cycles_left' = cycles_left - 1
    /\ since_run' = 0
    /\ \E pads \in [Motors -> PressureVals], p1 \in Pot1Mv, p2 \in Pot2Mv :
          /\ pressure_normalized' = pads
          /\ force_scale' = calculateForceScale(p1)
          /\ distance_scale' = calculateDistanceScale(p2)
    /\ loop_pc' = "dist"
    /\ ctrl_i' = 0
    /\ UNCHANGED <<millis, min_distance_cm, current_range, setpoints, current_state,
                   prev_state, reverse_start_time, duty_cycles, temp_setpoints,
                   temp_pressures, temp_duties, integrators, last_duty, motor_cmd,
                   shared_duty_cycles, last_good, read_ok, Kp, Ki, scenario,
                   shared_ultrasonic_distance>>
    /\ UNCHANGED <<sharedVars, scanVars, cfgVars>>

\* getMinDistance line 234: the value returned when the lock is not acquired
getMinDistance_default == SENTINEL_DISTANCE

\* main.cpp lines 544-579 for motor i, given what getMinDistance returned
MotorLoopBody(i, distance, ok) ==
    /\ min_distance_cm' = [min_distance_cm EXCEPT ![i] = distance]
    /\ shared_tof_distances' = storeTofDistance(i, distance)
    /\ current_range' =
          [current_range EXCEPT ![i] = getDistanceRange(distance, distance_scale)]
    /\ setpoints' =
          [setpoints EXCEPT ![i] =
              MotorSetpoint(distance, getDistanceRange(distance, distance_scale),
                            force_scale)]
    /\ read_ok' = [read_ok EXCEPT ![i] = ok]
    /\ last_good' = IF ok THEN [last_good EXCEPT ![i] = distance] ELSE last_good
    /\ IF i + 1 \in Motors
          THEN loop_pc' = "dist" /\ ctrl_i' = i + 1
          ELSE loop_pc' = "sm" /\ ctrl_i' = 0

\* getMinDistance line 240: xSemaphoreTake succeeds
getMinDistance_take ==
    /\ loop_pc = "dist"
    /\ distanceMutex = "none"
    /\ distanceMutex' = "loop"
    /\ loop_pc' = "dist_cs"
    /\ UNCHANGED <<ctrl_i, millis, current_time, last_control_ms, cycles_left,
                   pressure_normalized, force_scale, distance_scale, min_distance_cm,
                   current_range, setpoints, current_state, prev_state,
                   reverse_start_time, duty_cycles, temp_setpoints, temp_pressures,
                   temp_duties, integrators, last_duty, motor_cmd,
                   shared_duty_cycles, last_good, read_ok, Kp, Ki, scenario, since_run,
                   shared_ultrasonic_distance>>
    /\ UNCHANGED <<configMutex, shared_min_distance, shared_best_angle, shared_tof_distances,
                   scanVars, cfgVars>>

\* getMinDistance lines 241-245 and the rest of the motor loop body
getMinDistance_read ==
    /\ loop_pc = "dist_cs"
    /\ distanceMutex = "loop"
    /\ distanceMutex' = "none"
    /\ MotorLoopBody(ctrl_i, shared_min_distance[ctrl_i], TRUE)
    /\ UNCHANGED <<millis, current_time, last_control_ms, cycles_left,
                   pressure_normalized, force_scale, distance_scale, current_state,
                   prev_state, reverse_start_time, duty_cycles, temp_setpoints,
                   temp_pressures, temp_duties, integrators, last_duty, motor_cmd,
                   shared_duty_cycles, Kp, Ki, scenario, since_run,
                   shared_ultrasonic_distance>>
    /\ UNCHANGED <<configMutex, shared_min_distance, shared_best_angle,
                   scanVars, cfgVars>>

\* variant of the take at line 240 with portMAX_DELAY: the wait never runs out
getMinDistance_blocking == FALSE

\* getMinDistance line 240: the 10 ms wait for the lock runs out
getMinDistance_timeout ==
    /\ loop_pc = "dist"
    /\ distanceMutex = "scan"
    /\ MotorLoopBody(ctrl_i, getMinDistance_default, FALSE)
    /\ UNCHANGED <<millis, current_time, last_control_ms, cycles_left,
                   pressure_normalized, force_scale, distance_scale, current_state,
                   prev_state, reverse_start_time, duty_cycles, temp_setpoints,
                   temp_pressures, temp_duties, integrators, last_duty, motor_cmd,
                   shared_duty_cycles, Kp, Ki, scenario, since_run,
                   shared_ultrasonic_distance>>
    /\ UNCHANGED <<distanceMutex, configMutex, shared_min_distance,
                   shared_best_angle,
                   scanVars, cfgVars>>


(***************************************************************************)
(* Step 6 of the cycle: the per-motor state machine (lines 594-654).       *)
(***************************************************************************)
is_out_of_bounds(i) ==
    current_range[i] = "RANGE_OUT_OF_BOUNDS" \/ setpoints[i] < 0

is_valid(i) ==
    ~(current_range[i] = "RANGE_OUT_OF_BOUNDS" \/ current_range[i] = "RANGE_UNKNOWN"
        \/ setpoints[i] < 0)

\* variant of line 626 with a strict comparison
ReleaseTimeElapsed_strict(i) ==
    U32AtLeast(ElapsedMs(current_time, reverse_start_time[i]), RELEASE_TIME_MS + 1)

\* line 626
ReleaseTimeElapsed(i) ==
    U32AtLeast(ElapsedMs(current_time, reverse_start_time[i]), RELEASE_TIME_MS)

\* variant of the switch in which NORMAL_OPERATION skips the deflation
SafetyNextState_skip(i) ==
    CASE current_state[i] = "NORMAL_OPERATION" ->
            IF current_range[i] = "RANGE_OUT_OF_BOUNDS" \/ setpoints[i] < 0
            THEN "WAITING_FOR_VALID_READING" ELSE "NORMAL_OPERATION"
      [] current_state[i] = "OUT_OF_RANGE_DEFLATING" ->
            IF U32AtLeast(ElapsedMs(current_time, reverse_start_time[i]), RELEASE_TIME_MS)
            THEN "WAITING_FOR_VALID_READING" ELSE "OUT_OF_RANGE_DEFLATING"
      [] current_state[i] = "OUT_OF_RANGE_RELEASING" -> "WAITING_FOR_VALID_READING"
      [] current_state[i] = "WAITING_FOR_VALID_READING" ->
            IF setpoints[i] >= 0 /\ current_range[i] # "RANGE_OUT_OF_BOUNDS"
            THEN "NORMAL_OPERATION" ELSE "WAITING_FOR_VALID_READING"

\* variant that keeps the release phase of the enum's comments: a motor
\* whose deflation time has elapsed goes on to OUT_OF_RANGE_RELEASING
SafetyNextState_releasing(i) ==
    CASE current_state[i] = "NORMAL_OPERATION" ->
            IF current_range[i] = "RANGE_OUT_OF_BOUNDS" \/ setpoints[i] < 0
            THEN "OUT_OF_RANGE_DEFLATING" ELSE "NORMAL_OPERATION"
      [] current_state[i] = "OUT_OF_RANGE_DEFLATING" ->
            IF setpoints[i] >= 0 /\ current_range[i] \in {"RANGE_FAR", "RANGE_MEDIUM", "RANGE_CLOSE"}
            THEN "NORMAL_OPERATION"
            ELSE IF U32AtLeast(ElapsedMs(current_time, reverse_start_time[i]), RELEASE_TIME_MS)
            THEN "OUT_OF_RANGE_RELEASING"
            ELSE "OUT_OF_RANGE_DEFLATING"
      [] current_state[i] = "OUT_OF_RANGE_RELEASING" -> "WAITING_FOR_VALID_READING"
      [] current_state[i] = "WAITING_FOR_VALID_READING" ->
            IF setpoints[i] >= 0 /\ current_range[i] \in {"RANGE_FAR", "RANGE_MEDIUM", "RANGE_CLOSE"}
            THEN "NORMAL_OPERATION" ELSE "WAITING_FOR_VALID_READING"

\* the switch of lines 604-653: the state of motor i after the state machine
SafetyNextState(i) ==
    CASE current_state[i] = "NORMAL_OPERATION" ->
            IF is_out_of_bounds(i) THEN "OUT_OF_RANGE_DEFLATING" ELSE "NORMAL_OPERATION"
      [] current_state[i] = "OUT_OF_RANGE_DEFLATING" ->
            IF is_valid(i) THEN "NORMAL_OPERATION"
            ELSE IF ReleaseTimeElapsed(i) THEN "WAITING_FOR_VALID_READING"
            ELSE "OUT_OF_RANGE_DEFLATING"
      [] current_state[i] = "OUT_OF_RANGE_RELEASING" -> "WAITING_FOR_VALID_READING"
      [] current_state[i] = "WAITING_FOR_VALID_READING" ->
            IF is_valid(i) THEN "NORMAL_OPERATION" ELSE "WAITING_FOR_VALID_READING"

\* variant without the assignment of line 609
SafetyNextStart_stale(i) == reverse_start_time[i]

\* line 609
SafetyNextStart(i) ==
    IF current_state[i] = "NORMAL_OPERATION" /\ is_out_of_bounds(i)
    THEN current_time ELSE reverse_start_time[i]

\* variant in which a waiting motor keeps the reverse duty (line 650 missing
\* and the duty of the deflation carried over)
SafetyNextDuty_carried(i) ==
    CASE current_state[i] = "NORMAL_OPERATION" ->
            IF current_range[i] = "RANGE_OUT_OF_BOUNDS" \/ setpoints[i] < 0
            THEN -REVERSE_DUTY_PCT ELSE duty_cycles[i]
      [] current_state[i] = "OUT_OF_RANGE_DEFLATING" -> -REVERSE_DUTY_PCT
      [] current_state[i] = "OUT_OF_RANGE_RELEASING" -> -REVERSE_DUTY_PCT
      [] current_state[i] = "WAITING_FOR_VALID_READING" -> duty_cycles[i]

\* the assignments to duty_cycles[i] inside the switch
SafetyNextDuty(i) ==
    CASE current_state[i] = "NORMAL_OPERATION" ->
            IF is_out_of_bounds(i) THEN -REVERSE_DUTY_PCT ELSE duty_cycles[i]
      [] current_state[i] = "OUT_OF_RANGE_DEFLATING" ->
            IF is_valid(i) THEN 0
            ELSE IF ReleaseTimeElapsed(i) THEN 0
            ELSE -REVERSE_DUTY_PCT
      [] current_state[i] = "OUT_OF_RANGE_RELEASING" -> 0
      [] current_state[i] = "WAITING_FOR_VALID_READING" ->
            IF is_valid(i) THEN duty_cycles[i] ELSE 0

\* lines 612-616: the only branch that fills the PI inputs of motor i
Prepared(i) == current_state[i] = "NORMAL_OPERATION" /\ ~is_out_of_bounds(i)

\* resetIntegrators() is never called from loop(): the state machine leaves
\* the PI state of a motor that returns to NORMAL_OPERATION as it is
IntegratorAfterStateMachine(i) == integrators[i]
LastDutyAfterStateMachine(i) == last_duty[i]

CtrlStateMachine ==
    /\ loop_pc = "sm"
    /\ loop_pc' = "pi"
    /\ prev_state' = current_state
    /\ current_state' = [i \in Motors |-> SafetyNextState(i)]
    /\ reverse_start_time' = [i \in Motors |-> SafetyNextStart(i)]
    /\ duty_cycles' = [i \in Motors |-> SafetyNextDuty(i)]
    /\ integrators' = [i \in Motors |-> IntegratorAfterStateMachine(i)]
    /\ last_duty' = [i \in Motors |-> LastDutyAfterStateMachine(i)]
    \* temp_setpoints and temp_pressures (lines 588-589) are not initialised:
    \* an entry no branch assigned holds whatever the stack held
    /\ \E g_sp \in [Motors -> StackGarbage], g_p \in [Motors -> StackGarbage] :
          /\ temp_setpoints' =
                [i \in Motors |-> IF Prepared(i) THEN setpoints[i] ELSE g_sp[i]]
          /\ temp_pressures' =
                [i \in Motors |-> IF Prepared(i) THEN pressure_normalized[i] ELSE g_p[i]]
    /\ temp_duties' = [i \in Motors |-> 0]
    /\ UNCHANGED <<ctrl_i, millis, current_time, last_control_ms, cycles_left,
                   pressure_normalized, force_scale, distance_scale, min_distance_cm,
                   current_range, setpoints, motor_cmd, shared_duty_cycles,
                   last_good, read_ok, Kp, Ki, scenario, since_run,
                   shared_ultrasonic_distance>>
    /\ UNCHANGED <<sharedVars, scanVars, cfgVars>>

(***************************************************************************)
(* Line 658: the batch PI step over all motors (pi_controller.cpp 131-185).*)
(***************************************************************************)
controlStepCommand(i) ==
    PICommand(integrators[i], temp_setpoints[i], temp_pressures[i])

CtrlPI ==
    /\ loop_pc = "pi"
    /\ loop_pc' = "apply"
    /\ integrators' =
          [i \in Motors |->
              PIIntegrator(integrators[i], temp_setpoints[i], temp_pressures[i])]
    /\ temp_duties' = [i \in Motors |-> controlStepCommand(i)]
    /\ last_duty' = [i \in Motors |-> controlStepCommand(i)]
    /\ motor_cmd' = [i \in Motors |-> PIMotorCommand(controlStepCommand(i))]
    \* the input arrays are dead after the call
    /\ temp_setpoints' = [i \in Motors |-> 0]
    /\ temp_pressures' = [i \in Motors |-> 0]
    /\ UNCHANGED <<ctrl_i, millis, current_time, last_control_ms, cycles_left,
                   pressure_normalized, force_scale, distance_scale, min_distance_cm,
                   current_range, setpoints, current_state, prev_state,
                   reverse_start_time, duty_cycles, shared_duty_cycles,
                   last_good, read_ok, Kp, Ki, scenario, since_run,
                   shared_ultrasonic_distance>>
    /\ UNCHANGED <<sharedVars, scanVars, cfgVars>>

(***************************************************************************)
(* Lines 660-693: the override loop and the telemetry scalars.             *)
(***************************************************************************)
\* variant without the override loop: the command of the PI step stays
OverrideCommand_none(i) == motor_cmd[i]

\* variant with one state for all motors: as soon as any motor is out of
\* NORMAL_OPERATION, every motor is braked
OverrideCommand_global(i) ==
    IF \A j \in Motors : current_state[j] = "NORMAL_OPERATION" THEN motor_cmd[i]
    ELSE Brake

\* lines 662-675: the command the override loop hands to the driver of motor i
OverrideCommand(i) ==
    IF current_state[i] = "NORMAL_OPERATION" THEN motor_cmd[i]
    ELSE IF current_state[i] = "OUT_OF_RANGE_DEFLATING"
            \/ current_state[i] = "OUT_OF_RANGE_RELEASING"
         THEN Reverse(REVERSE_DUTY_PCT)
    ELSE Brake

\* variant of lines 662-665 that takes the output of the PI step for every
\* motor, whatever its state
AppliedDuty_pi(i) == temp_duties[i]

\* line 664
AppliedDuty(i) ==
    IF current_state[i] = "NORMAL_OPERATION" THEN temp_duties[i] ELSE duty_cycles[i]

CtrlApply ==
    /\ loop_pc = "apply"
    /\ loop_pc' = "done"
    /\ motor_cmd' = [i \in Motors |-> OverrideCommand(i)]
    /\ duty_cycles' = [i \in Motors |-> AppliedDuty(i)]
    /\ shared_duty_cycles' = [i \in Motors |-> AppliedDuty(i)]
    /\ UNCHANGED <<ctrl_i, millis, current_time, last_control_ms, cycles_left,
                   pressure_normalized, force_scale, distance_scale, min_distance_cm,
                   current_range, setpoints, current_state, prev_state,
                   reverse_start_time, temp_setpoints, temp_pressures, temp_duties,
                   integrators, last_duty, last_good, read_ok, Kp, Ki, scenario, since_run,
                   shared_ultrasonic_distance>>
    /\ UNCHANGED <<sharedVars, scanVars, cfgVars>>

\* line 697: delay(1); the locals of the cycle go out of scope.  The statics
\* pressure_normalized, force_scale, distance_scale, current_range and
\* setpoints are overwritten by the next cycle before it reads them (lines
\* 488, 523, 527, 550, 554/573/575), so their values are dead from here on
\* and are dropped.
CtrlDelay ==
    /\ loop_pc = "done"
    /\ loop_pc' = "cmd"
    /\ min_distance_cm' = [i \in Motors |-> 0]
    /\ temp_duties' = [i \in Motors |-> 0]
    /\ read_ok' = [i \in Motors |-> TRUE]
    /\ prev_state' = current_state
    /\ pressure_normalized' = [i \in Motors |-> 0]
    /\ force_scale' = FORCE_SCALE_MAX
    /\ distance_scale' = 1000
    /\ current_range' = [i \in Motors |-> "RANGE_UNKNOWN"]
    /\ setpoints' = [i \in Motors |-> 0]
    /\ UNCHANGED <<ctrl_i, millis, current_time, last_control_ms, cycles_left,
                   current_state, reverse_start_time, duty_cycles, temp_setpoints,
                   temp_pressures, integrators, last_duty, motor_cmd,
                   shared_duty_cycles, last_good, Kp, Ki, scenario, since_run,
                   shared_ultrasonic_distance>>
    /\ UNCHANGED <<sharedVars, scanVars, cfgVars>>

(***************************************************************************)
(* processSerialCommand (command_handler.cpp), called at the top of every  *)
(* iteration of loop().                                                    *)
(***************************************************************************)
validateAngle(a) == a >= 0 /\ a <= 180
\* variant of lines 55-57 without the comparison of the two angles
validateSweepRange_unordered(min, max) == min >= 0 /\ max <= 180

validateSweepRange(min, max) == min >= 0 /\ max <= 180 /\ min < max
validateStep(step) == step >= 1 /\ step <= 20

\* the commands whose handler takes configMutex
TakesConfigLock(c) ==
    c.op \in {"SWEEP:ENABLE", "SWEEP:DISABLE", "SWEEP:MIN", "SWEEP:MAX",
              "SWEEP:STEP", "SWEEP:STATUS", "SERVO:ANGLE"}

\* the argument checks made before the lock is asked for (lines 107, 129,
\* 151, 200)
PassesEarlyValidation(c) ==
    CASE c.op \in {"SWEEP:MIN", "SWEEP:MAX", "SERVO:ANGLE"} -> validateAngle(c.arg)
      [] c.op = "SWEEP:STEP" -> validateStep(c.arg)
      [] OTHER -> TRUE

\* the reply of a command that never asks for the lock
UnlockedReply(c) ==
    IF c.op = "MODE" THEN "ACK"
    ELSE IF c.op = "UNKNOWN" THEN "ERR:INVALID_COMMAND"
    ELSE "ERR:OUT_OF_RANGE"

\* lines 234-260 for a command answered without the lock: MODE, an unknown
\* command, or an argument out of range
CmdNoLock ==
    /\ loop_pc = "cmd"
    /\ cmds_left > 0
    /\ \E c \in Commands :
          /\ ~TakesConfigLock(c) \/ ~PassesEarlyValidation(c)
          /\ response' = UnlockedReply(c)
    /\ cmds_left' = cmds_left - 1
    /\ loop_pc' = "gate"
    /\ UNCHANGED <<ctrl_i, millis, current_time, last_control_ms, cycles_left,
                   pressure_normalized, force_scale, distance_scale, min_distance_cm,
                   current_range, setpoints, current_state, prev_state,
                   reverse_start_time, duty_cycles, temp_setpoints, temp_pressures,
                   temp_duties, integrators, last_duty, motor_cmd,
                   shared_duty_cycles, last_good, read_ok, Kp, Ki, scenario, since_run,
                   shared_ultrasonic_distance>>
    /\ UNCHANGED <<sharedVars, scanVars, sweep_enabled, servo_min_angle,
                   servo_max_angle, servo_step, servo_manual_angle, cmd>>

\* xSemaphoreTake(configMutex, 10 ms) succeeds (lines 86, 96, 112, 134, 156,
\* 166, 206)
CmdTakeConfig ==
    /\ loop_pc = "cmd"
    /\ cmds_left > 0
    /\ configMutex = "none"
    /\ \E c \in Commands :
          /\ TakesConfigLock(c) /\ PassesEarlyValidation(c)
          /\ cmd' = [op |-> c.op, arg |-> c.arg, reply |-> "none"]
    /\ configMutex' = "loop"
    /\ cmds_left' = cmds_left - 1
    /\ loop_pc' = "cmd_cs"
    /\ UNCHANGED <<ctrl_i, millis, current_time, last_control_ms, cycles_left,
                   pressure_normalized, force_scale, distance_scale, min_distance_cm,
                   current_range, setpoints, current_state, prev_state,
                   reverse_start_time, duty_cycles, temp_setpoints, temp_pressures,
                   temp_duties, integrators, last_duty, motor_cmd,
                   shared_duty_cycles, last_good, read_ok, Kp, Ki, scenario, since_run,
                   shared_ultrasonic_distance>>
    /\ UNCHANGED <<distanceMutex, shared_min_distance, shared_best_angle, shared_tof_distances,
                   scanVars, sweep_enabled,
                   servo_min_angle, servo_max_angle, servo_step,
                   servo_manual_angle, response>>

\* the take fails after 10 ms: sendError("MUTEX", ...)
CmdConfigTimeout ==
    /\ loop_pc = "cmd"
    /\ cmds_left > 0
    /\ configMutex = "scan"
    /\ \E c \in Commands : TakesConfigLock(c) /\ PassesEarlyValidation(c)
    /\ response' = "ERR:MUTEX"
    /\ cmds_left' = cmds_left - 1
    /\ loop_pc' = "gate"
    /\ UNCHANGED <<ctrl_i, millis, current_time, last_control_ms, cycles_left,
                   pressure_normalized, force_scale, distance_scale, min_distance_cm,
                   current_range, setpoints, current_state, prev_state,
                   reverse_start_time, duty_cycles, temp_setpoints, temp_pressures,
                   temp_duties, integrators, last_duty, motor_cmd,
                   shared_duty_cycles, last_good, read_ok, Kp, Ki, scenario, since_run,
                   shared_ultrasonic_distance>>
    /\ UNCHANGED <<sharedVars, scanVars, sweep_enabled, servo_min_angle,
                   servo_max_angle, servo_step, servo_manual_angle, cmd>>

\* variant of the handlers in which SERVO:ANGLE skips the test of line 209
AcceptedUnderLock_sweeping(c) ==
    CASE c.op = "SWEEP:MIN" -> validateSweepRange(c.arg, servo_max_angle)
      [] c.op = "SWEEP:MAX" -> validateSweepRange(servo_min_angle, c.arg)
      [] OTHER -> TRUE

\* whether the handler, holding the lock, accepts the command (lines 114,
\* 136, 209)
AcceptedUnderLock(c) ==
    CASE c.op = "SWEEP:MIN" -> validateSweepRange(c.arg, servo_max_angle)
      [] c.op = "SWEEP:MAX" -> validateSweepRange(servo_min_angle, c.arg)
      [] c.op = "SERVO:ANGLE" -> ~sweep_enabled
      [] OTHER -> TRUE

\* variant in which a refused command is acknowledged all the same
LockedReply_ack(c) == IF c.op = "SWEEP:STATUS" THEN "STATUS" ELSE "ACK"

\* the reply the handler sends once it has given the lock back
LockedReply(c) ==
    IF AcceptedUnderLock(c)
    THEN IF c.op = "SWEEP:STATUS" THEN "STATUS" ELSE "ACK"
    ELSE IF c.op = "SERVO:ANGLE" THEN "ERR:SWEEP_ACTIVE" ELSE "ERR:INVALID_RANGE"

\* the accesses to the runtime configuration between take and give
CmdCritical ==
    /\ loop_pc = "cmd_cs"
    /\ configMutex = "loop"
    /\ sweep_enabled' =
          IF cmd.op = "SWEEP:ENABLE" THEN TRUE
          ELSE IF cmd.op = "SWEEP:DISABLE" THEN FALSE
          ELSE sweep_enabled
    /\ servo_min_angle' =
          IF cmd.op = "SWEEP:MIN" /\ AcceptedUnderLock(cmd) THEN cmd.arg
          ELSE servo_min_angle
    /\ servo_max_angle' =
          IF cmd.op = "SWEEP:MAX" /\ AcceptedUnderLock(cmd) THEN cmd.arg
          ELSE servo_max_angle
    /\ servo_step' = IF cmd.op = "SWEEP:STEP" THEN cmd.arg ELSE servo_step
    /\ servo_manual_angle' =
          IF cmd.op = "SERVO:ANGLE" /\ AcceptedUnderLock(cmd) THEN cmd.arg
          ELSE servo_manual_angle
    /\ cmd' = [cmd EXCEPT !.reply = LockedReply(cmd)]
    /\ configMutex' = "none"
    /\ loop_pc' = "cmd_out"
    /\ UNCHANGED <<ctrl_i, millis, current_time, last_control_ms, cycles_left,
                   pressure_normalized, force_scale, distance_scale, min_distance_cm,
                   current_range, setpoints, current_state, prev_state,
                   reverse_start_time, duty_cycles, temp_setpoints, temp_pressures,
                   temp_duties, integrators, last_duty, motor_cmd,
                   shared_duty_cycles, last_good, read_ok, Kp, Ki, scenario, since_run,
                   shared_ultrasonic_distance>>
    /\ UNCHANGED <<distanceMutex, shared_min_distance, shared_best_angle, shared_tof_distances,
                   scanVars, response,
                   cmds_left>>

\* sendAck / sendError / the STATUS print, after xSemaphoreGive
CmdRespond ==
    /\ loop_pc = "cmd_out"
    /\ response' = cmd.reply
    /\ cmd' = NoCmd
    /\ loop_pc' = "gate"
    /\ UNCHANGED <<ctrl_i, millis, current_time, last_control_ms, cycles_left,
                   pressure_normalized, force_scale, distance_scale, min_distance_cm,
                   current_range, setpoints, current_state, prev_state,
                   reverse_start_time, duty_cycles, temp_setpoints, temp_pressures,
                   temp_duties, integrators, last_duty, motor_cmd,
                   shared_duty_cycles, last_good, read_ok, Kp, Ki, scenario, since_run,
                   shared_ultrasonic_distance>>
    /\ UNCHANGED <<sharedVars, scanVars, sweep_enabled, servo_min_angle,
                   servo_max_angle, servo_step, servo_manual_angle, cmds_left>>

(***************************************************************************)
(* Scan context: servoSweepTask of tof_sensor.cpp.  The lock protocol is   *)
(* modelled step by step.  For Spec and LockSpec the sweep itself (servo   *)
(* positions, samples and running minima) is reduced to its outcome: after *)
(* a sample, either no sector is due for publication or one sector is,     *)
(* with a minimum below the sentinel (the guard of line 516).  SweepSpec,  *)
(* further down, follows the sweep angle by angle.                         *)
(***************************************************************************)
\* line 277: xSemaphoreTake(configMutex) succeeds
ScanTakeConfig ==
    /\ scan_pc = "cfg"
    /\ configMutex = "none"
    /\ configMutex' = "scan"
    /\ scan_pc' = "cfg_cs"
    /\ UNCHANGED <<ctrlVars, distanceMutex, shared_min_distance,
                   shared_best_angle, shared_tof_distances, cfgVars, is_sweep_enabled,
                   completed_sector, min_distance_sector, localCfg, sweepVars>>

\* lines 278-284: the copies of the runtime configuration
CopyConfig ==
    /\ is_sweep_enabled' = sweep_enabled
    /\ manual_angle' = servo_manual_angle
    /\ min_angle' = servo_min_angle
    /\ max_angle' = servo_max_angle
    /\ step_size' = servo_step
    /\ last_read' = [enabled |-> sweep_enabled, manual |-> servo_manual_angle,
                     min |-> servo_min_angle, max |-> servo_max_angle,
                     step |-> servo_step]

\* variant of lines 278-285 without the xSemaphoreGive of line 285
ScanReadConfig_holding ==
    /\ scan_pc = "cfg_cs"
    /\ configMutex = "scan"
    /\ CopyConfig
    /\ scan_pc' = "mode"
    /\ UNCHANGED <<ctrlVars, sharedVars, cfgVars, completed_sector,
                   min_distance_sector, sweepVars>>

\* lines 278-285: copy the runtime configuration, give the lock back
ScanReadConfig ==
    /\ scan_pc = "cfg_cs"
    /\ configMutex = "scan"
    /\ CopyConfig
    /\ configMutex' = "none"
    /\ scan_pc' = "mode"
    /\ UNCHANGED <<ctrlVars, distanceMutex, shared_min_distance,
                   shared_best_angle, shared_tof_distances, cfgVars, completed_sector,
                   min_distance_sector, sweepVars>>

\* lines 268-272: the locals are declared inside for(;;), so every iteration
\* starts from their initialisers
FreshConfig ==
    /\ is_sweep_enabled' = FALSE
    /\ manual_angle' = SERVO_MANUAL_DEFAULT
    /\ min_angle' = SERVO_MIN_ANGLE
    /\ max_angle' = SERVO_MAX_ANGLE
    /\ step_size' = SERVO_STEP

\* line 277 fails after 10 ms: the locals keep their initialisers (268-274)
ScanConfigTimeout ==
    /\ scan_pc = "cfg"
    /\ configMutex = "loop"
    /\ FreshConfig
    /\ scan_pc' = "mode"
    /\ UNCHANGED <<ctrlVars, sharedVars, cfgVars, completed_sector,
                   min_distance_sector, last_read, sweepVars>>

\* lines 291-328: manual hold; servo write, settle delay, one sample, 100 ms
\* delay.  The sample goes to shared_tof_current and, when valid, to the
\* telemetry array shared_tof_distances (lines 320-323), which getMinDistance
\* does not read; shared_min_distance is not written and no lock is taken.
ScanManual ==
    /\ scan_pc = "mode"
    /\ ~is_sweep_enabled
    /\ \E d \in SweepSamples :
          /\ scan_distance' = d
          /\ shared_tof_distances' = storeLiveSample(SectorOf(manual_angle), d)
    /\ sector_index' = SectorOf(manual_angle)
    /\ pass' = "manual"
    /\ scan_pc' = "cfg"
    /\ UNCHANGED <<ctrlVars, distanceMutex, configMutex, shared_min_distance,
                   shared_best_angle, cfgVars, is_sweep_enabled,
                   completed_sector, min_distance_sector, localCfg,
                   angle_of_min_sector, sector_updated_forward,
                   sector_updated_backward, angle, pass_samples, pass_writes,
                   slots_before, pass_timeouts, sweeps_left>>

\* lines 455-516 (and 536-597) reduced to their outcome: servo write, settle
\* delay, sample, minimum tracking, and the decision whether a sector is
\* published now
ScanSample ==
    /\ scan_pc \in {"mode", "sweep"}
    /\ is_sweep_enabled
    /\ shared_tof_distances' \in
          {storeLiveSample(s, d) : s \in Sectors, d \in SweepSamples}
    /\ \/ /\ scan_pc' = "sweep"
          /\ UNCHANGED <<completed_sector, min_distance_sector>>
       \/ \E s \in Motors, d \in SampleVals :
             /\ completed_sector' = s
             /\ min_distance_sector' = [min_distance_sector EXCEPT ![s] = d]
             /\ scan_pc' = "pub"
    /\ UNCHANGED <<ctrlVars, distanceMutex, configMutex, shared_min_distance,
                   shared_best_angle, cfgVars, is_sweep_enabled, localCfg,
                   sweepVars>>

\* lines 608-611: the pass is over, 100 ms pause, back to the top of for(;;)
ScanEndPass ==
    /\ scan_pc = "sweep"
    /\ scan_pc' = "cfg"
    /\ UNCHANGED <<ctrlVars, sharedVars, cfgVars, is_sweep_enabled,
                   completed_sector, min_distance_sector, localCfg, sweepVars>>

\* line 517: xSemaphoreTake(distanceMutex) succeeds
ScanTakeDistance ==
    /\ scan_pc = "pub"
    /\ distanceMutex = "none"
    /\ distanceMutex' = "scan"
    /\ scan_pc' = "pub_cs"
    /\ UNCHANGED <<ctrlVars, configMutex, shared_min_distance,
                   shared_best_angle, shared_tof_distances, cfgVars, is_sweep_enabled,
                   completed_sector, min_distance_sector, localCfg, sweepVars>>

\* lines 518-521: write the slot, give the lock back, mark the sector
ScanPublish ==
    /\ scan_pc = "pub_cs"
    /\ distanceMutex = "scan"
    /\ shared_min_distance' =
          [shared_min_distance EXCEPT
              ![completed_sector] = min_distance_sector[completed_sector]]
    /\ shared_best_angle' =
          [shared_best_angle EXCEPT
              ![completed_sector] = angle_of_min_sector[completed_sector]]
    /\ distanceMutex' = "none"
    /\ scan_pc' = "sweep"
    /\ completed_sector' = -1
    /\ min_distance_sector' = [s \in Sectors |-> SENTINEL_DISTANCE]
    /\ UNCHANGED <<ctrlVars, configMutex, cfgVars, is_sweep_enabled, localCfg,
                   sweepVars>>
    /\ UNCHANGED shared_tof_distances

\* line 517 fails after 10 ms: nothing is published at this angle
ScanDistanceTimeout ==
    /\ scan_pc = "pub"
    /\ distanceMutex = "loop"
    /\ scan_pc' = "sweep"
    /\ completed_sector' = -1
    /\ min_distance_sector' = [s \in Sectors |-> SENTINEL_DISTANCE]
    /\ UNCHANGED <<ctrlVars, sharedVars, cfgVars, is_sweep_enabled, localCfg,
                   sweepVars>>

(***************************************************************************)
(* The bidirectional sweep of servoSweepTask (lines 439-613) step by step: *)
(* servo positions, samples, running minima, sector completion and the     *)
(* publication of each completed sector.                                   *)
(***************************************************************************)
\* variant of lines 495 and 576 without the test distance > 0
TracksMinimum_signed(d, current) == d < current

\* variant of line 495 with a non-strict comparison
TracksMinimum_last(d, current) == d > 0 /\ d <= current

\* lines 495 and 576: the test of the minimum tracking
TracksMinimum(d, current) == d > 0 /\ d < current

\* one test of the chain of lines 502-512
LeftForward(s, a, step) == a >= SectorMax(s) \/ a + step > SectorMax(s)

\* one test of the chain of lines 584-594
LeftBackward(s, a, step) == a <= SectorMin(s) \/ a - step < SectorMin(s)

\* lines 501-513: the lowest sector that the angle has left and that is not
\* marked, -1 when there is none
ForwardCompleted(a, step, updated) ==
    IF \E s \in Sectors : LeftForward(s, a, step) /\ ~updated[s]
    THEN CHOOSE s \in Sectors :
            /\ LeftForward(s, a, step) /\ ~updated[s]
            /\ \A t \in Sectors :
                  t < s => ~(LeftForward(t, a, step) /\ ~updated[t])
    ELSE -1

\* lines 582-594: the highest sector that the angle has left and that is
\* not marked, -1 when there is none
BackwardCompleted(a, step, updated) ==
    IF \E s \in Sectors : LeftBackward(s, a, step) /\ ~updated[s]
    THEN CHOOSE s \in Sectors :
            /\ LeftBackward(s, a, step) /\ ~updated[s]
            /\ \A t \in Sectors :
                  t > s => ~(LeftBackward(t, a, step) /\ ~updated[t])
    ELSE -1

\* variant of lines 516 and 597 without the test against the sentinel
ShouldPublish_any(c, mins) == c >= 0

\* lines 516 and 597: a sector is published when one is due and its running
\* minimum is below the sentinel
ShouldPublish(c, mins) == c >= 0 /\ mins[c] < SENTINEL_DISTANCE

\* variant of lines 521 and 602 that leaves the sector unmarked
MarkUpdated_never(updated, c) == updated

\* lines 521 and 602: the sector is marked after its publication
MarkUpdated(updated, c) == [updated EXCEPT ![c] = TRUE]

\* the loop headers of lines 455 and 536
InArc == IF pass = "forward" THEN angle <= max_angle ELSE angle >= min_angle
NextAngle == IF pass = "forward" THEN angle + step_size ELSE angle - step_size

\* lines 445-455: the per-iteration arrays and the start of the forward loop
SweepBegin ==
    /\ scan_pc = "mode"
    /\ is_sweep_enabled
    /\ sweeps_left > 0
    /\ sweeps_left' = sweeps_left - 1
    /\ min_distance_sector' = [s \in Sectors |-> SENTINEL_DISTANCE]
    /\ angle_of_min_sector' = [s \in Sectors |-> SectorMin(s)]
    /\ sector_updated_forward' = [s \in Sectors |-> FALSE]
    /\ sector_updated_backward' = [s \in Sectors |-> FALSE]
    /\ pass' = "forward"
    /\ angle' = min_angle
    /\ pass_samples' = << >>
    /\ pass_writes' = [s \in Sectors |-> 0]
    /\ slots_before' = Slots(shared_min_distance, shared_best_angle)
    /\ pass_timeouts' = 0
    /\ scan_pc' = "step"
    /\ UNCHANGED <<ctrlVars, sharedVars, cfgVars, is_sweep_enabled,
                   completed_sector, localCfg, scan_distance, sector_index>>

\* lines 456-516 and 526 (537-597 and 607 going backward): servo write,
\* settle delay, one sample, minimum tracking, the completion chain, and
\* either the way to the publication or the delay and the next angle
SweepSample ==
    /\ scan_pc = "step"
    /\ pass \in {"forward", "backward"}
    /\ InArc
    /\ \E d \in SweepSamples :
          LET s == SectorOf(angle)
              tracked == s \in Sectors /\ TracksMinimum(d, min_distance_sector[s])
              mins == IF tracked
                      THEN [min_distance_sector EXCEPT ![s] = d]
                      ELSE min_distance_sector
              c == IF pass = "forward"
                   THEN ForwardCompleted(angle, step_size, sector_updated_forward)
                   ELSE BackwardCompleted(angle, step_size, sector_updated_backward)
          IN  /\ scan_distance' = d
              /\ shared_tof_distances' = storeLiveSample(s, d)
              /\ sector_index' = s
              /\ min_distance_sector' = mins
              /\ angle_of_min_sector' =
                    IF tracked
                    THEN [angle_of_min_sector EXCEPT ![s] = angle]
                    ELSE angle_of_min_sector
              /\ completed_sector' = c
              /\ pass_samples' = Append(pass_samples, [angle |-> angle, d |-> d])
              /\ IF ShouldPublish(c, mins)
                 THEN scan_pc' = "step_pub" /\ angle' = angle
                 ELSE scan_pc' = "step" /\ angle' = NextAngle
    /\ UNCHANGED <<ctrlVars, distanceMutex, configMutex, shared_min_distance,
                   shared_best_angle, cfgVars, is_sweep_enabled, localCfg,
                   sector_updated_forward, sector_updated_backward, pass,
                   pass_writes, slots_before, pass_timeouts, sweeps_left>>

\* lines 517 and 598: xSemaphoreTake(distanceMutex) succeeds
SweepTake ==
    /\ scan_pc = "step_pub"
    /\ distanceMutex = "none"
    /\ distanceMutex' = "scan"
    /\ scan_pc' = "step_cs"
    /\ UNCHANGED <<ctrlVars, configMutex, shared_min_distance,
                   shared_best_angle, shared_tof_distances, cfgVars, is_sweep_enabled,
                   completed_sector, min_distance_sector, localCfg, sweepVars>>

\* lines 518-526 and 599-607: write the sector's slot and its angle, give
\* the lock back, mark the sector, delay, next angle
SweepPublish ==
    /\ scan_pc = "step_cs"
    /\ distanceMutex = "scan"
    /\ shared_min_distance' =
          [shared_min_distance EXCEPT
              ![completed_sector] = min_distance_sector[completed_sector]]
    /\ shared_best_angle' =
          [shared_best_angle EXCEPT
              ![completed_sector] = angle_of_min_sector[completed_sector]]
    /\ distanceMutex' = "none"
    /\ IF pass = "forward"
       THEN /\ sector_updated_forward' =
                  MarkUpdated(sector_updated_forward, completed_sector)
            /\ UNCHANGED sector_updated_backward
       ELSE /\ sector_updated_backward' =
                  MarkUpdated(sector_updated_backward, completed_sector)
            /\ UNCHANGED sector_updated_forward
    /\ pass_writes' =
          [pass_writes EXCEPT ![completed_sector] = pass_writes[completed_sector] + 1]
    /\ angle' = NextAngle
    /\ scan_pc' = "step"
    /\ UNCHANGED <<ctrlVars, configMutex, cfgVars, is_sweep_enabled,
                   completed_sector, min_distance_sector, localCfg,
                   angle_of_min_sector, pass, scan_distance, sector_index,
                   pass_samples,
                   slots_before, pass_timeouts, sweeps_left>>
    /\ UNCHANGED shared_tof_distances

\* lines 517 and 598 fail after 10 ms: nothing is written and the sector
\* stays unmarked; delay, next angle
SweepTimeout ==
    /\ scan_pc = "step_pub"
    /\ distanceMutex = "loop"
    /\ angle' = NextAngle
    /\ pass_timeouts' = pass_timeouts + 1
    /\ scan_pc' = "step"
    /\ UNCHANGED <<ctrlVars, sharedVars, cfgVars, is_sweep_enabled,
                   completed_sector, min_distance_sector, localCfg,
                   angle_of_min_sector, sector_updated_forward,
                   sector_updated_backward, pass, scan_distance, sector_index,
                   pass_samples,
                   pass_writes, slots_before, sweeps_left>>

\* lines 528-536: the forward loop is over; the running minima are reset
\* and the backward loop starts at max_angle
SweepTurn ==
    /\ scan_pc = "step"
    /\ pass = "forward"
    /\ ~InArc
    /\ min_distance_sector' = [s \in Sectors |-> SENTINEL_DISTANCE]
    /\ angle_of_min_sector' = [s \in Sectors |-> SERVO_MAX_ANGLE]
    /\ pass' = "backward"
    /\ angle' = max_angle
    /\ pass_samples' = << >>
    /\ pass_writes' = [s \in Sectors |-> 0]
    /\ slots_before' = Slots(shared_min_distance, shared_best_angle)
    /\ pass_timeouts' = 0
    /\ UNCHANGED <<ctrlVars, sharedVars, cfgVars, scan_pc, is_sweep_enabled,
                   completed_sector, localCfg, sector_updated_forward,
                   sector_updated_backward, scan_distance, sector_index, sweeps_left>>

\* lines 608-611: the backward loop is over, 100 ms pause, back to the top
\* of for(;;)
SweepEnd ==
    /\ scan_pc = "step"
    /\ pass = "backward"
    /\ ~InArc
    /\ pass' = "none"
    /\ scan_pc' = "cfg"
    /\ UNCHANGED <<ctrlVars, sharedVars, cfgVars, is_sweep_enabled,
                   completed_sector, min_distance_sector, localCfg,
                   angle_of_min_sector, sector_updated_forward,
                   sector_updated_backward, angle, scan_distance, sector_index,
                   pass_samples,
                   pass_writes, slots_before, pass_timeouts, sweeps_left>>

(***************************************************************************)
(* Spec: the control cycle against the scanner's publications.             *)
(***************************************************************************)
LoopStep ==
    \/ NoCommand
    \/ CtrlSkip
    \/ CtrlBegin
    \/ getMinDistance_take
    \/ getMinDistance_read
    \/ getMinDistance_timeout
    \/ CtrlStateMachine
    \/ CtrlPI
    \/ CtrlApply
    \/ CtrlDelay

ScanStep ==
    \/ ScanTakeConfig
    \/ ScanReadConfig
    \/ ScanSample
    \/ ScanEndPass
    \/ ScanTakeDistance
    \/ ScanPublish
    \/ ScanDistanceTimeout

Next == Tick \/ LoopStep \/ ScanStep

Spec == Init /\ [][Next]_vars

\* loop() is the only task of its core's arduino loop and is always scheduled;
\* nothing is assumed about the progress of servoSweepTask
FairSpec == Init /\ [][Next]_vars /\ WF_vars(LoopStep)

(***************************************************************************)
(* LockSpec: one control cycle, the scanner in both of its modes and the   *)
(* serial command handler, for the protocol of the two locks.              *)
(***************************************************************************)
LockInit == InitWith(LockCycles, MaxCommands)

CmdStep ==
    \/ CmdNoLock
    \/ CmdTakeConfig
    \/ CmdConfigTimeout
    \/ CmdCritical
    \/ CmdRespond

LockNext ==
    \/ Tick
    \/ LoopStep
    \/ CmdStep
    \/ ScanStep
    \/ ScanConfigTimeout
    \/ ScanManual

LockSpec == LockInit /\ [][LockNext]_vars

(***************************************************************************)
(* SweepSpec: the sweep step by step under each configuration of           *)
(* SweepConfigs, against one control cycle that competes for the distance  *)
(* lock.                                                                   *)
(***************************************************************************)
SweepInit == \E c \in SweepConfigs : InitState(SweepCycles, 0, c)

SweepStep ==
    \/ ScanTakeConfig
    \/ ScanReadConfig
    \/ SweepBegin
    \/ SweepSample
    \/ SweepTake
    \/ SweepPublish
    \/ SweepTimeout
    \/ SweepTurn
    \/ SweepEnd

SweepNext == Tick \/ LoopStep \/ SweepStep

SweepSpec == SweepInit /\ [][SweepNext]_vars

(***************************************************************************)
(* FusionSpec: the two sensor tasks on their own, servoSweepTask sweeping  *)
(* the compile-time arc of SweepConfigs and ultrasonicReadTask              *)
(* (ultrasonic_sensor.cpp lines 105-141).  initCore0Tasks creates the      *)
(* first and no code of the repository creates the second; the             *)
(* specification runs it all the same.                                     *)
(***************************************************************************)
\* what the ultrasonic sensor may measure, cm
UltrasonicReadings == {10, 60, 600}

\* ultrasonicGetDistance lines 116-121: -1 outside the trusted range
ultrasonicGetDistance(d) ==
    IF d < ULTRASONIC_MIN_CM \/ d > ULTRASONIC_MAX_CM THEN -1 ELSE d

\* one iteration of ultrasonicReadTask (lines 129-140)
ultrasonicReadTask ==
    /\ \E d \in UltrasonicReadings :
          shared_ultrasonic_distance' =
              IF ultrasonicGetDistance(d) > 0
              THEN ultrasonicGetDistance(d)
              ELSE shared_ultrasonic_distance
    /\ UNCHANGED <<loop_pc, ctrl_i, millis, current_time, last_control_ms,
                   cycles_left, pressure_normalized, force_scale,
                   distance_scale, min_distance_cm, current_range, setpoints,
                   current_state, prev_state, reverse_start_time, duty_cycles,
                   temp_setpoints, temp_pressures, temp_duties, integrators,
                   last_duty, motor_cmd, shared_duty_cycles, last_good, read_ok,
                   Kp, Ki, scenario, since_run>>
    /\ UNCHANGED <<sharedVars, scanVars, cfgVars>>

FusionInit == InitState(0, 0, [min |-> 25, max |-> 85, step |-> 20])

FusionNext ==
    \/ ScanTakeConfig
    \/ ScanReadConfig
    \/ SweepBegin
    \/ SweepSample
    \/ SweepTake
    \/ SweepPublish
    \/ SweepTurn
    \/ SweepEnd
    \/ ultrasonicReadTask

FusionSpec == FusionInit /\ [][FusionNext]_vars

(***************************************************************************)
(* ClassifySpec: the sector assignment of lines 475-486 applied to each    *)
(* angle of each arc of ClassifyArcs.                                      *)
(***************************************************************************)
ClassifyInit ==
    \E c \in ClassifyArcs : \E a \in c.min .. c.max :
        InitAt(0, 0, c, a)

\* lines 475-486: the sector of the servo position
Classify ==
    /\ scan_pc = "cfg"
    /\ sector_index' = SectorOf(angle)
    /\ scan_pc' = "classified"
    /\ UNCHANGED <<ctrlVars, sharedVars, cfgVars, is_sweep_enabled,
                   completed_sector, min_distance_sector, localCfg,
                   angle_of_min_sector, sector_updated_forward,
                   sector_updated_backward, pass, angle, scan_distance,
                   pass_samples, pass_writes, slots_before, pass_timeouts,
                   sweeps_left>>

ClassifySpec == ClassifyInit /\ [][Classify]_vars

(***************************************************************************)
(* GainSpec: calls of setPIGains (pi_controller.cpp lines 65-68).  No code *)
(* of the repository calls it; the specification applies it to every pair  *)
(* of GainVals.                                                            *)
(***************************************************************************)
\* lines 65-68: both arguments are stored as they come
setPIGains ==
    /\ \E kp \in GainVals, ki \in GainVals :
          /\ Kp' = kp
          /\ Ki' = ki
    /\ UNCHANGED <<loop_pc, ctrl_i, millis, current_time, last_control_ms,
                   cycles_left, pressure_normalized, force_scale,
                   distance_scale, min_distance_cm, current_range, setpoints,
                   current_state, prev_state, reverse_start_time, duty_cycles,
                   temp_setpoints, temp_pressures, temp_duties, integrators,
                   last_duty, motor_cmd, shared_duty_cycles, last_good, read_ok,
                   scenario, since_run, shared_ultrasonic_distance>>
    /\ UNCHANGED <<sharedVars, scanVars, cfgVars>>

GainSpec == InitWith(0, 0) /\ [][setPIGains]_vars

(***************************************************************************)
(* PairSpec: the control cycle for PairMotors motors side by side, each    *)
(* with its own sector, state, timer and PI state.  The scan task has      *)
(* published what it found and is not scheduled again, so nobody contends  *)
(* for the distance lock.                                                  *)
(***************************************************************************)
\* what the scan task may have published: nothing or a sample, per sector
PairPublished == [Sectors -> SampleVals \cup {SENTINEL_DISTANCE}]

PairInit ==
    \E slots \in PairPublished :
        InitFrom(0 .. (PairMotors - 1), 0, Kp100, Ki100, slots, PairCycles, 0,
                 DefaultSweep, SERVO_MIN_ANGLE)

PairNext ==
    \/ Tick
    \/ NoCommand
    \/ CtrlSkip
    \/ CtrlBegin
    \/ getMinDistance_take
    \/ getMinDistance_read
    \/ CtrlStateMachine
    \/ CtrlPI
    \/ CtrlApply
    \/ CtrlDelay

PairSpec == PairInit /\ [][PairNext]_vars

(***************************************************************************)
(* ClockSpec: loop() against a clock that advances in steps shorter than   *)
(* the control period, from setup() and from a state whose last cycle ran  *)
(* 60 ms before the millisecond clock wraps.  No scan task runs.           *)
(***************************************************************************)
\* milliseconds between two looks at the clock
ClockSteps == {10, 25}
\* the clock at the start: 0, and 0xFFFFFFC4 = 2^32 - 60
ClockStarts == {0, -60}

ClockInit ==
    \E t0 \in ClockStarts :
        InitFrom(BuildMotors, t0, Kp100, Ki100, Unpublished, ClockCycles, 0,
                 DefaultSweep, SERVO_MIN_ANGLE)

\* time passes between two iterations of loop() (line 697 and the calls
\* before the gate)
ClockTick ==
    /\ loop_pc = "gate"
    /\ cycles_left > 0
    /\ ~GateOpen
    /\ \E d \in ClockSteps :
          /\ millis' = U32Add(millis, d)
          /\ since_run' = since_run + d
    /\ UNCHANGED <<loop_pc, ctrl_i, current_time, last_control_ms, cycles_left,
                   pressure_normalized, force_scale, distance_scale, min_distance_cm,
                   current_range, setpoints, current_state, prev_state,
                   reverse_start_time, duty_cycles, temp_setpoints, temp_pressures,
                   temp_duties, integrators, last_duty, motor_cmd,
                   shared_duty_cycles, last_good, read_ok, Kp, Ki, scenario,
                   shared_ultrasonic_distance>>
    /\ UNCHANGED <<sharedVars, scanVars, cfgVars>>

\* loop() with nobody to contend for the distance lock
ClockNext ==
    \/ ClockTick
    \/ NoCommand
    \/ CtrlSkip
    \/ CtrlBegin
    \/ getMinDistance_take
    \/ getMinDistance_read
    \/ CtrlStateMachine
    \/ CtrlPI
    \/ CtrlApply
    \/ CtrlDelay

ClockSpec == ClockInit /\ [][ClockNext]_vars

(***************************************************************************)
(* RangeSpec: the pad reading of line 488 and lines 544-579 of loop() on   *)
(* their own, the classification of a distance and the setpoint that       *)
(* follows from it, applied to every distance of RangeDistances under      *)
(* every pair of scales.  A step is the motor loop of one control cycle,   *)
(* so the range of the state before is previous_range (line 579).          *)
(***************************************************************************)
RangeDistances ==
    {READ_ERROR, 0, 40, 49, 50, 60, 99, 100, 150, 199, 200, 250, 299, 300,
     301, 400, 998, SENTINEL_DISTANCE}
RangeForceScales == {FORCE_SCALE_MIN, 800, FORCE_SCALE_MAX}
RangeDistanceScales == {DIST_SCALE_MIN, 1000, DIST_SCALE_MAX}

classifyDistance ==
    \E d \in RangeDistances, fs \in RangeForceScales, ds \in RangeDistanceScales :
        /\ force_scale' = fs
        /\ distance_scale' = ds
        /\ pressure_normalized' \in [Motors -> PressureVals]
        /\ min_distance_cm' = [i \in Motors |-> d]
        /\ shared_tof_distances' = [k \in DOMAIN shared_tof_distances |-> d]
        /\ current_range' = [i \in Motors |-> getDistanceRange(d, ds)]
        /\ setpoints' =
              [i \in Motors |-> MotorSetpoint(d, getDistanceRange(d, ds), fs)]
        /\ UNCHANGED <<loop_pc, ctrl_i, millis, current_time, last_control_ms,
                       cycles_left, current_state, prev_state, reverse_start_time, duty_cycles,
                       temp_setpoints, temp_pressures, temp_duties, integrators,
                       last_duty, motor_cmd, shared_duty_cycles, last_good,
                       read_ok, Kp, Ki, scenario, since_run,
                       shared_ultrasonic_distance>>
        /\ UNCHANGED <<distanceMutex, configMutex, shared_min_distance,
                   shared_best_angle,
                       scanVars, cfgVars>>

RangeSpec == InitWith(0, 0) /\ [][classifyDistance]_vars

(***************************************************************************)
(* PISpec: controlStepNewtons (pi_controller.cpp lines 131-185) on its     *)
(* own, called MaxPISteps times on setpoints and measurements of its       *)
(* caller's choice, under every pair of non-negative gains of GainVals.    *)
(***************************************************************************)
PIGains == {g \in GainVals : g >= 0}
PISetpoints == {0, 100000}
PIMeasurements == {0, 40000, 80000, 95000, 100000}

\* the end-to-end scenario: setpoint 100 against the measurements 0, 40,
\* 80, 95, 100, 100
Scenario ==
    <<[sp |-> 100000, p |-> 0], [sp |-> 100000, p |-> 40000],
      [sp |-> 100000, p |-> 80000], [sp |-> 100000, p |-> 95000],
      [sp |-> 100000, p |-> 100000], [sp |-> 100000, p |-> 100000]>>

\* how far motor 0's inputs have followed the scenario after one more call
ScenarioAfter(sp, p) ==
    IF /\ scenario >= 0
       /\ scenario < Len(Scenario)
       /\ Scenario[scenario + 1] = [sp |-> sp, p |-> p]
    THEN scenario + 1
    ELSE -1

PIInit ==
    \E kp \in PIGains, ki \in PIGains :
        InitFrom(BuildMotors, 0, kp, ki, Unpublished, MaxPISteps, 0, DefaultSweep,
                 SERVO_MIN_ANGLE)

\* one call: for every motor the integrator, duty_out and last_duty are
\* written and the driver is commanded (lines 134-184)
controlStepNewtons ==
    /\ cycles_left > 0
    /\ cycles_left' = cycles_left - 1
    /\ \E sp \in [Motors -> PISetpoints], p \in [Motors -> PIMeasurements] :
          /\ temp_setpoints' = sp
          /\ temp_pressures' = p
          /\ integrators' =
                [i \in Motors |-> PIIntegrator(integrators[i], sp[i], p[i])]
          /\ temp_duties' =
                [i \in Motors |-> PICommand(integrators[i], sp[i], p[i])]
          /\ last_duty' =
                [i \in Motors |-> PICommand(integrators[i], sp[i], p[i])]
          /\ motor_cmd' =
                [i \in Motors |->
                    PIMotorCommand(PICommand(integrators[i], sp[i], p[i]))]
          /\ scenario' = ScenarioAfter(sp[0], p[0])
    /\ UNCHANGED <<loop_pc, ctrl_i, millis, current_time, last_control_ms,
                   pressure_normalized, force_scale, distance_scale,
                   min_distance_cm, current_range, setpoints, current_state,
                   prev_state, reverse_start_time, duty_cycles,
                   shared_duty_cycles, last_good, read_ok, Kp, Ki, since_run,
                   shared_ultrasonic_distance>>
    /\ UNCHANGED <<sharedVars, scanVars, cfgVars>>

PISpec == PIInit /\ [][controlStepNewtons]_vars

(***************************************************************************)
(* Properties of the control cycle.  prev_state holds, from the state      *)
(* machine step to the end of the cycle, the safety state each motor had   *)
(* when the cycle started; current_range and setpoints hold the cycle's    *)
(* classification until the cycle ends.                                    *)
(***************************************************************************)
AfterStateMachine == loop_pc \in {"pi", "apply", "done"}
EndOfCycle == loop_pc = "done"
ReadingInvalid(i) ==
    \/ current_range[i] \in {"RANGE_OUT_OF_BOUNDS", "RANGE_UNKNOWN"}
    \/ setpoints[i] < 0
ReadingUsable(i) ==
    /\ current_range[i] \in {"RANGE_FAR", "RANGE_MEDIUM", "RANGE_CLOSE"}
    /\ setpoints[i] >= 0

\* C1: at the end of every control cycle the last command handed to a motor
\* in OUT_OF_RANGE_DEFLATING or OUT_OF_RANGE_RELEASING is reverse at
\* REVERSE_DUTY_PCT, and to a motor in WAITING_FOR_VALID_READING is brake,
\* whatever the PI step issued for it earlier in the cycle.
C1_OverrideWins ==
    EndOfCycle =>
        \A i \in Motors :
            /\ current_state[i] \in {"OUT_OF_RANGE_DEFLATING", "OUT_OF_RANGE_RELEASING"}
                  => motor_cmd[i] = Reverse(REVERSE_DUTY_PCT)
            /\ current_state[i] = "WAITING_FOR_VALID_READING"
                  => motor_cmd[i] = Brake

\* a cycle ends with a deflating motor reversed although the PI step of the
\* same cycle had driven it forward
C1_Witness ==
    /\ EndOfCycle
    /\ \E i \in Motors :
          /\ current_state[i] = "OUT_OF_RANGE_DEFLATING"
          /\ last_duty[i] > 0
          /\ motor_cmd[i] = Reverse(REVERSE_DUTY_PCT)

\* C2: a motor that starts a cycle in NORMAL_OPERATION with range out of
\* bounds or unknown, or with a negative setpoint, is in
\* OUT_OF_RANGE_DEFLATING from the state machine step of that cycle on, with
\* the cycle's timestamp as deflation start, and ends the cycle on the fixed
\* reverse command.
C2_NormalToDeflating ==
    AfterStateMachine =>
        \A i \in Motors :
            (prev_state[i] = "NORMAL_OPERATION" /\ ReadingInvalid(i)) =>
                /\ current_state[i] = "OUT_OF_RANGE_DEFLATING"
                /\ reverse_start_time[i] = current_time
                /\ EndOfCycle => motor_cmd[i] = Reverse(REVERSE_DUTY_PCT)

\* a motor left NORMAL_OPERATION on a published out-of-bounds minimum, in a
\* cycle later than time 0
C2_Witness ==
    /\ EndOfCycle
    /\ \E i \in Motors :
          /\ prev_state[i] = "NORMAL_OPERATION"
          /\ read_ok[i]
          /\ min_distance_cm[i] < SENTINEL_DISTANCE
          /\ current_range[i] = "RANGE_OUT_OF_BOUNDS"
          /\ current_state[i] = "OUT_OF_RANGE_DEFLATING"
          /\ reverse_start_time[i] = current_time
          /\ current_time > 0

C4_WaitingToNormal ==
    AfterStateMachine =>
        \A i \in Motors :
            prev_state[i] = "WAITING_FOR_VALID_READING" =>
                IF ReadingUsable(i)
                THEN current_state[i] = "NORMAL_OPERATION"
                ELSE /\ current_state[i] = "WAITING_FOR_VALID_READING"
                     /\ duty_cycles[i] = 0
                     /\ EndOfCycle => motor_cmd[i] = Brake

\* a waiting motor returned to NORMAL_OPERATION on a usable reading
C4_Witness ==
    /\ EndOfCycle
    /\ \E i \in Motors :
          /\ prev_state[i] = "WAITING_FOR_VALID_READING"
          /\ ReadingUsable(i)
          /\ current_state[i] = "NORMAL_OPERATION"

\* C5: when the state machine step takes a motor from a non-normal state to
\* NORMAL_OPERATION, its integrator and its last command are zero before the
\* PI step of that cycle runs.
C5_ResetOnReturn ==
    loop_pc = "pi" =>
        \A i \in Motors :
            (prev_state[i] # "NORMAL_OPERATION" /\ current_state[i] = "NORMAL_OPERATION")
                => (integrators[i] = 0 /\ last_duty[i] = 0)

C7_SentinelIsInvalid ==
    AfterStateMachine =>
        \A i \in Motors :
            min_distance_cm[i] >= SENTINEL_DISTANCE =>
                /\ current_range[i] \notin {"RANGE_FAR", "RANGE_MEDIUM", "RANGE_CLOSE"}
                /\ setpoints[i] = INVALID_SETPOINT
                /\ current_state[i] # "NORMAL_OPERATION"

\* a cycle read the never-published slot under the lock and ended with the
\* motor out of NORMAL_OPERATION
C7_Witness ==
    /\ EndOfCycle
    /\ \E i \in Motors :
          /\ read_ok[i]
          /\ min_distance_cm[i] = SENTINEL_DISTANCE
          /\ setpoints[i] = INVALID_SETPOINT
          /\ prev_state[i] = "NORMAL_OPERATION"
          /\ current_state[i] = "OUT_OF_RANGE_DEFLATING"

\* C8: when the read of a motor's slot does not get the lock, the distance
\* the cycle uses for the motor is the value of the previous successful read.
C8_TimeoutKeepsPrevious ==
    \A i \in Motors : ~read_ok[i] => min_distance_cm[i] = last_good[i]

\* C9: every control cycle that starts reaches its end, whatever the scan
\* context does (it may keep the distance lock for ever).
C9_CycleCompletes == (loop_pc = "dist") ~> (loop_pc = "done")

\* a cycle ended while the scan context was still holding the distance lock
\* it held when the cycle asked for it
C9_Witness ==
    /\ EndOfCycle
    /\ distanceMutex = "scan"
    /\ \E i \in Motors : ~read_ok[i]

\* the steps in which a context samples the sensor, commands the servo or a
\* motor, delays, or writes to the serial port
LoopSlowStep ==
    CtrlSkip \/ CtrlPI \/ CtrlApply \/ CtrlDelay
        \/ CmdNoLock \/ CmdConfigTimeout \/ CmdRespond
ScanSlowStep == ScanManual \/ ScanSample \/ ScanEndPass
HoldsNone(ctx) == distanceMutex # ctx /\ configMutex # ctx
HeldOnlyForAccess ==
    /\ distanceMutex = "loop" => loop_pc = "dist_cs"
    /\ configMutex = "loop" => loop_pc = "cmd_cs"
    /\ distanceMutex = "scan" => scan_pc = "pub_cs"
    /\ configMutex = "scan" => scan_pc = "cfg_cs"
    /\ ~(distanceMutex = "loop" /\ configMutex = "loop")
    /\ ~(distanceMutex = "scan" /\ configMutex = "scan")

\* C10: a context holds distanceMutex or configMutex only while it stands at
\* the shared accesses between take and give, never both locks at once, and
\* every step that samples, commands the servo or a motor, delays or writes
\* to the serial port is taken by a context that holds no lock before and
\* after it.
C10_LockDiscipline ==
    /\ []HeldOnlyForAccess
    /\ [][/\ LoopSlowStep => (HoldsNone("loop") /\ HoldsNone("loop")')
          /\ ScanSlowStep => (HoldsNone("scan") /\ HoldsNone("scan")')]_vars

\* the command handler holds configMutex while the scan context holds
\* distanceMutex, after an earlier command has been answered
C10_Witness ==
    /\ configMutex = "loop"
    /\ distanceMutex = "scan"
    /\ response = "ACK"

(***************************************************************************)
(* Properties of the sweep, over SweepSpec.  pass_samples holds the        *)
(* samples of the current traversal in the order they were taken,          *)
(* pass_writes the number of times each sector's slot was written in it,   *)
(* and slots_before the shared slots as the traversal found them.          *)
(***************************************************************************)
InTraversal == pass \in {"forward", "backward"}
EndOfTraversal == InTraversal /\ scan_pc = "step" /\ ~InArc

\* the servo positions of the current traversal
SweptAngles ==
    {a \in min_angle .. max_angle :
        IF pass = "forward" THEN (a - min_angle) % step_size = 0
        ELSE (max_angle - a) % step_size = 0}

\* positions in pass_samples of the valid samples taken inside sector s
ValidIn(s) ==
    {k \in DOMAIN pass_samples :
        /\ pass_samples[k].d > 0
        /\ pass_samples[k].angle >= SectorMin(s)
        /\ pass_samples[k].angle < SectorMax(s)}

Sampled(a) == \E k \in DOMAIN pass_samples : pass_samples[k].angle = a

\* C11: once sector s has been published in a traversal, every servo
\* position of the traversal inside s has been sampled, the published
\* distance is the minimum of the traversal's valid samples in s, and the
\* published angle is the one at which that minimum was sampled first
C11_PublishedIsSectorMinimum ==
    \A s \in Sectors :
        (InTraversal /\ pass_writes[s] > 0) =>
            /\ \A a \in SweptAngles :
                  (a >= SectorMin(s) /\ a < SectorMax(s)) => Sampled(a)
            /\ \A k \in ValidIn(s) : shared_min_distance[s] <= pass_samples[k].d
            /\ \E k \in ValidIn(s) :
                  /\ pass_samples[k].d = shared_min_distance[s]
                  /\ pass_samples[k].angle = shared_best_angle[s]
                  /\ \A j \in ValidIn(s) :
                        j < k => pass_samples[j].d > shared_min_distance[s]

\* a sector published from three samples, the minimum sampled twice
C11_Witness ==
    \E s \in Sectors :
        /\ InTraversal
        /\ pass_writes[s] > 0
        /\ \E j, k \in ValidIn(s) :
              /\ j < k
              /\ pass_samples[j].d = pass_samples[k].d
              /\ pass_samples[j].d = shared_min_distance[s]
        /\ \E k \in ValidIn(s) : pass_samples[k].d > shared_min_distance[s]

\* C12: within one traversal each sector's slot is written at most once
C12_WrittenAtMostOnce ==
    \A s \in Sectors : pass_writes[s] <= 1

\* a traversal in which a take of the distance lock failed and the sector
\* was published at a later angle
C12_Witness ==
    /\ pass = "forward"
    /\ pass_timeouts > 0
    /\ pass_writes[0] = 1
    /\ EndOfTraversal

\* C13: a sector without a valid sample in the current traversal keeps the
\* distance and the angle that the traversal found in its slot
C13_NoSampleNoWrite ==
    \A s \in Sectors :
        (InTraversal /\ ValidIn(s) = {}) =>
            /\ shared_min_distance[s] = slots_before.dist[s]
            /\ shared_best_angle[s] = slots_before.angle[s]

\* a backward traversal that sampled only errors in a sector whose slot
\* holds the minimum of the forward traversal
C13_Witness ==
    \E s \in Sectors :
        /\ pass = "backward"
        /\ EndOfTraversal
        /\ ValidIn(s) = {}
        /\ \E k \in DOMAIN pass_samples :
              /\ pass_samples[k].angle >= SectorMin(s)
              /\ pass_samples[k].angle < SectorMax(s)
        /\ shared_min_distance[s] < SENTINEL_DISTANCE

\* C14: when a traversal ends, every sector with a valid sample in it has
\* been published in it
C14_EverySampledSectorPublished ==
    EndOfTraversal =>
        \A s \in Sectors : ValidIn(s) # {} => pass_writes[s] >= 1

\* C15: every angle of the configured arc is assigned exactly one sector,
\* the one whose span [min, max) holds it, the last sector also holding the
\* arc's maximum
C15_EveryAngleHasItsSector ==
    (scan_pc = "classified"
        /\ angle >= servo_min_angle /\ angle <= servo_max_angle) =>
        /\ sector_index \in 0 .. (NUM_SECTORS - 1)
        /\ angle >= SectorMin(sector_index)
        /\ angle <= SectorMax(sector_index)
        /\ angle = SectorMax(sector_index) =>
              (sector_index = NUM_SECTORS - 1 /\ angle = servo_max_angle)

(***************************************************************************)
(* Properties of the manual hold and of the configuration read, over       *)
(* LockSpec.                                                               *)
(***************************************************************************)
\* the scan context has just finished an iteration in manual hold
AfterManualSample == pass = "manual" /\ scan_pc = "cfg"

\* C16: after a valid sample in manual hold, the published distance of the
\* sector that owns the manual angle is that sample
C16_ManualSampleRepublished ==
    (AfterManualSample /\ scan_distance > 0 /\ sector_index \in Sectors) =>
        shared_min_distance[sector_index] = scan_distance

\* C17: whenever the scan context has passed its configuration read, with
\* or without the lock, its parameters are those of its last successful
\* read; in particular a scanner that last read "enabled" keeps sweeping
C17_StaleConfigFallback ==
    (scan_pc = "mode" /\ last_read # NoRead) =>
        /\ is_sweep_enabled = last_read.enabled
        /\ manual_angle = last_read.manual
        /\ min_angle = last_read.min
        /\ max_angle = last_read.max
        /\ step_size = last_read.step

(***************************************************************************)
(* Properties of the serial command handler, over LockSpec.                *)
(***************************************************************************)
\* C18: the runtime scan parameters stay inside their ranges
C18_ParametersInRange ==
    /\ 0 <= servo_min_angle
    /\ servo_min_angle < servo_max_angle
    /\ servo_max_angle <= 180
    /\ 1 <= servo_step
    /\ servo_step <= 20
    /\ 0 <= servo_manual_angle
    /\ servo_manual_angle <= 180

\* SWEEP:MAX:10 was accepted and SWEEP:MIN:10, which would close the arc,
\* was refused
C18_Witness ==
    /\ servo_max_angle = 10
    /\ servo_min_angle = SERVO_MIN_ANGLE
    /\ response = "ERR:INVALID_RANGE"

IsErr(r) ==
    r \in {"ERR:OUT_OF_RANGE", "ERR:INVALID_RANGE", "ERR:SWEEP_ACTIVE",
           "ERR:INVALID_COMMAND", "ERR:MUTEX"}

\* the step in which the handler decides a command under the lock
DecidesLocked == loop_pc = "cmd_cs" /\ loop_pc' = "cmd_out"
\* the step in which the handler answers a command without the lock
DecidesUnlocked == loop_pc = "cmd" /\ cmds_left' = cmds_left - 1 /\ loop_pc' = "gate"

ParametersUnchanged ==
    UNCHANGED <<sweep_enabled, servo_min_angle, servo_max_angle, servo_step,
                servo_manual_angle>>

\* the command sets the parameter it names and no other
SetsNamedOnly(c) ==
    /\ sweep_enabled' = IF c.op = "SWEEP:ENABLE" THEN TRUE
                        ELSE IF c.op = "SWEEP:DISABLE" THEN FALSE
                        ELSE sweep_enabled
    /\ servo_min_angle' = IF c.op = "SWEEP:MIN" THEN c.arg ELSE servo_min_angle
    /\ servo_max_angle' = IF c.op = "SWEEP:MAX" THEN c.arg ELSE servo_max_angle
    /\ servo_step' = IF c.op = "SWEEP:STEP" THEN c.arg ELSE servo_step
    /\ servo_manual_angle' =
          IF c.op = "SERVO:ANGLE" THEN c.arg ELSE servo_manual_angle

\* accepted: ACK and the named parameter set; rejected: ERR and nothing set.
\* MODE is acknowledged at line 254 and names no runtime scan parameter.
AckOrErr ==
    /\ DecidesLocked =>
          \/ cmd'.reply = "ACK" /\ SetsNamedOnly(cmd)
          \/ IsErr(cmd'.reply) /\ ParametersUnchanged
    /\ DecidesUnlocked =>
          \/ response' = "ACK" /\ ParametersUnchanged
          \/ IsErr(response') /\ ParametersUnchanged

\* the status query: a STATUS line and nothing set
StatusAnswered ==
    /\ DecidesLocked
    /\ cmd.op = "SWEEP:STATUS"
    /\ cmd'.reply = "STATUS"
    /\ ParametersUnchanged

C20_GainsNonNegative == Kp >= 0 /\ Ki >= 0

(***************************************************************************)
(* Properties of the PI step, over PISpec.  A step of PISpec is a call of  *)
(* controlStepNewtons; temp_setpoints and temp_pressures hold its inputs.  *)
(***************************************************************************)
\* the saturated output of the call for motor i, from the stored integrator
RawOf(i) ==
    Clamp((Kp * (temp_setpoints[i] - temp_pressures[i])) \div 100
            + (Ki * (integrators[i] \div 100)) \div (INTEG_UNIT \div 1000),
          DUTY_MIN, DUTY_MAX)

\* C21: after every PI step, whatever the setpoints and measurements and
\* whatever the gain Ki >= 0, the integral term Ki * integrator is at most
\* output_max in magnitude
C21_IntegralTermBounded ==
    \A i \in Motors :
        cycles_left < MaxPISteps =>
            /\ Ki * (integrators[i] \div 100) <= DUTY_MAX * (INTEG_UNIT \div 1000)
            /\ Ki * (integrators[i] \div 100) >= DUTY_MIN * (INTEG_UNIT \div 1000)

\* a constant error of +100 was integrated twice under Ki = 48: the sum of
\* error * dt is 4, the integrator stands at 100/48
C21_Witness ==
    /\ Ki = Ki100
    /\ cycles_left = MaxPISteps - 2
    /\ temp_setpoints[0] - temp_pressures[0] = 100000
    /\ integrators[0] = 312500
    /\ integrators[0] < 2 * 100000 * INTEG_PER_ERR

\* C22: the command of a PI step is 0 when the saturated output is below
\* MIN_RUN in magnitude, on either side of zero, and the saturated output
\* itself otherwise, so it lies in {0}, [MIN_RUN, 100] or [-100, -MIN_RUN];
\* the integrator stored by the step is the clamped sum whether or not the
\* deadband gated
C22_Deadband ==
    [][\A i \in Motors :
          cycles_left' < cycles_left =>
              /\ \/ last_duty'[i] = 0
                 \/ last_duty'[i] >= MIN_RUN /\ last_duty'[i] <= DUTY_MAX
                 \/ last_duty'[i] <= -MIN_RUN /\ last_duty'[i] >= DUTY_MIN
              /\ (RawOf(i)' < MIN_RUN /\ RawOf(i)' > -MIN_RUN) => last_duty'[i] = 0
              /\ (RawOf(i)' >= MIN_RUN \/ RawOf(i)' <= -MIN_RUN)
                    => last_duty'[i] = RawOf(i)'
              /\ integrators'[i] =
                    Clamp(integrators[i]
                            + (temp_setpoints'[i] - temp_pressures'[i]) * INTEG_PER_ERR,
                          -IntegratorMax, IntegratorMax)]_vars

\* under the gains 0.15 / 0.60 an error of -100 gives an output of about
\* -16: the command is 0 and the integrator has moved all the same
C22_Witness ==
    /\ Kp = 15
    /\ Ki = 60
    /\ cycles_left = MaxPISteps - 1
    /\ temp_setpoints[0] - temp_pressures[0] = -100000
    /\ RawOf(0) < 0
    /\ RawOf(0) > -MIN_RUN
    /\ last_duty[0] = 0
    /\ integrators[0] = -100000 * INTEG_PER_ERR

\* the scenario runs under the compile-time gains 12 / 48
ScenarioGains == Kp = Kp100 /\ Ki = Ki100

\* what the scenario shows whatever its last two steps emit: forward
\* commands of at least the deadband in steps 1 and 2, saturation at 100
\* while the error is large (100, 60, 20), an integrator within 100/48
ScenarioHead ==
    /\ scenario \in {1, 2} => last_duty[0] >= MIN_RUN /\ motor_cmd[0].dir = "forward"
    /\ scenario \in {1, 2, 3} => last_duty[0] = DUTY_MAX
    /\ scenario >= 1 =>
          integrators[0] <= 312500 /\ integrators[0] >= -312500

\* C23 as stated: in the scenario (setpoint 100, measurements 0, 40, 80,
\* 95, 100, 100, Kp = 12, Ki = 48, zero integrator at the start) the first
\* two steps emit forward commands of at least the deadband, the output
\* saturates at 100 while the error is large, the final steps (error 0)
\* emit command 0 and the integrator stays bounded
C23_ScenarioSettles ==
    ScenarioGains =>
        /\ ScenarioHead
        /\ scenario \in {5, 6} => last_duty[0] = 0

\* C23: in the scenario the first two steps emit forward commands of at
\* least the deadband, the output saturates at 100 while the error is
\* large, the final steps (error 0) still emit command 100, the integral
\* term of the saturated integrator being 100 on its own, and the
\* integrator stays bounded
C23_ScenarioHolds ==
    ScenarioGains =>
        /\ ScenarioHead
        /\ scenario \in {5, 6} => last_duty[0] = DUTY_MAX

\* the scenario has run to its sixth step
C23_Witness ==
    /\ ScenarioGains
    /\ scenario = 6
    /\ temp_setpoints[0] = temp_pressures[0]
    /\ last_duty[0] = DUTY_MAX
    /\ integrators[0] = 312500

(***************************************************************************)
(* Properties of the classifier and of the setpoint, over RangeSpec.  A    *)
(* step of RangeSpec classifies a distance; two consecutive states hold    *)
(* any two distances.                                                      *)
(***************************************************************************)
\* the distance was classified under the base thresholds 100 / 200 / 300
Classified(i) == current_range[i] # "RANGE_UNKNOWN" \/ min_distance_cm[i] < 0
BaseThresholds == distance_scale = 1000

Closeness(r) ==
    CASE r = "RANGE_FAR" -> 1
      [] r = "RANGE_MEDIUM" -> 2
      [] r = "RANGE_CLOSE" -> 3
      [] OTHER -> 0

\* Medium for 150, Far for 250, OutOfBounds for 400, Unknown for -1
ClassifiedExamples(i) ==
    /\ min_distance_cm[i] = 150 => current_range[i] = "RANGE_MEDIUM"
    /\ min_distance_cm[i] = 250 => current_range[i] = "RANGE_FAR"
    /\ min_distance_cm[i] = 400 => current_range[i] = "RANGE_OUT_OF_BOUNDS"
    /\ min_distance_cm[i] = -1 => current_range[i] = "RANGE_UNKNOWN"

\* C24 as stated: with thresholds Close < 100, Medium < 200, Far <= 300 the
\* classifier returns Close for 40, Medium for 150, Far for 250,
\* OutOfBounds for 400 and Unknown for -1, and every non-negative distance
\* up to 300 receives one of Far, Medium, Close
C24_ClassifierTotalMonotone ==
    \A i \in Motors :
        (BaseThresholds /\ Classified(i)) =>
            /\ ClassifiedExamples(i)
            /\ min_distance_cm[i] = 40 => current_range[i] = "RANGE_CLOSE"
            /\ (min_distance_cm[i] >= 0 /\ min_distance_cm[i] <= 300)
                  => Closeness(current_range[i]) > 0

\* C24: with thresholds Close < 100, Medium < 200, Far <= 300 the
\* classifier returns OutOfBounds for 40, which is below the fixed minimum
\* 50 of the Close range, Medium for 150, Far for 250, OutOfBounds for 400
\* and Unknown for -1; every distance from 50 to 300 receives one of Far,
\* Medium, Close, and of two such distances the smaller one is at least as
\* close
C24_ClassifierOverSpan ==
    [][\A i \in Motors :
          (BaseThresholds' /\ Classified(i)') =>
              /\ ClassifiedExamples(i)'
              /\ min_distance_cm'[i] = 40 => current_range'[i] = "RANGE_OUT_OF_BOUNDS"
              /\ (min_distance_cm'[i] >= 50 /\ min_distance_cm'[i] <= 300)
                    => Closeness(current_range'[i]) > 0
              /\ ( /\ BaseThresholds /\ Classified(i)
                   /\ min_distance_cm[i] >= 50 /\ min_distance_cm[i] <= 300
                   /\ min_distance_cm'[i] >= 50
                   /\ min_distance_cm'[i] <= min_distance_cm[i] )
                    => Closeness(current_range'[i]) >= Closeness(current_range[i])]_vars

\* 40 cm was classified under the base thresholds
C24_Witness ==
    /\ BaseThresholds
    /\ min_distance_cm[0] = 40
    /\ current_range[0] = "RANGE_OUT_OF_BOUNDS"

\* C25: in the cycle in which a motor's range changes into Far a baseline,
\* the current measurement, is captured and not captured again while the
\* range stays Far; in every cycle in Far with a captured baseline the
\* setpoint is that baseline plus the security offset
C25_BaselineOnEnteringFar ==
    [][\A i \in Motors :
          (Classified(i)' /\ current_range'[i] = "RANGE_FAR") =>
              IF current_range[i] # "RANGE_FAR"
              THEN pressure_normalized'[i] > 0 =>
                      setpoints'[i] = pressure_normalized'[i] + SECURITY_OFFSET
              ELSE setpoints[i] > SECURITY_OFFSET => setpoints'[i] = setpoints[i]]_vars

\* C26: under every force scale from 0.60 to 1.00 the setpoint is strictly
\* larger for Close than for Medium than for Far, positive and at most 100
\* in all three; for Unknown and OutOfBounds it is the negative invalid
\* value, not scaled
C26_SetpointOrder ==
    [][\A i \in Motors :
          Classified(i)' =>
              /\ Closeness(current_range'[i]) > 0 =>
                    setpoints'[i] > 0 /\ setpoints'[i] <= 100000
              /\ Closeness(current_range'[i]) = 0 => setpoints'[i] = -1000
              /\ ( /\ Classified(i)
                   /\ force_scale' = force_scale
                   /\ Closeness(current_range[i]) > 0
                   /\ Closeness(current_range'[i]) > Closeness(current_range[i]) )
                    => setpoints'[i] > setpoints[i]]_vars

\* Close at force scale 0.60: the setpoint is 60
C26_Witness ==
    /\ force_scale = FORCE_SCALE_MIN
    /\ current_range[0] = "RANGE_CLOSE"
    /\ setpoints[0] = 60000

(***************************************************************************)
(* Property of the published distance against the ultrasonic reading,      *)
(* over FusionSpec.                                                        *)
(***************************************************************************)
\* a reading of either sensor that counts: the ultrasonic one within its
\* trusted range, the TOF one a sample that is neither an error nor the
\* sentinel
UltrasonicValid == 
    /\ shared_ultrasonic_distance >= ULTRASONIC_MIN_CM
    /\ shared_ultrasonic_distance <= ULTRASONIC_MAX_CM
TofValid(s) ==
    min_distance_sector[s] > 0 /\ min_distance_sector[s] < SENTINEL_DISTANCE

\* C27: the distance published for a sector is the smaller of the valid
\* TOF reading and the valid ultrasonic reading, an invalid reading of one
\* sensor being ignored in favour of the other
C27_PublishedIsFusedMinimum ==
    [][\A s \in Sectors :
          pass_writes'[s] > pass_writes[s] =>
              shared_min_distance'[s] =
                  IF UltrasonicValid
                     /\ (~TofValid(s) \/ shared_ultrasonic_distance < min_distance_sector[s])
                  THEN shared_ultrasonic_distance
                  ELSE min_distance_sector[s]]_vars

(***************************************************************************)
(* Property of the batch PI step against the safety states, over Spec.     *)
(***************************************************************************)
\* C29: the PI step runs for the motors in NORMAL_OPERATION only: no step
\* of a control cycle changes the integrator or the last command of a motor
\* that is in OUT_OF_RANGE_DEFLATING, OUT_OF_RANGE_RELEASING or
\* WAITING_FOR_VALID_READING
C29_PIOnlyForNormal ==
    [][\A i \in Motors :
          current_state[i] # "NORMAL_OPERATION" =>
              /\ integrators'[i] = integrators[i]
              /\ last_duty'[i] = last_duty[i]]_vars

(***************************************************************************)
(* Property of the period gate, over ClockSpec.  since_run counts the      *)
(* milliseconds since the cycle body last ran without wrapping.            *)
(***************************************************************************)
\* C30: the cycle body runs only when at least CTRL_DT_MS have passed
\* since it last ran, and is skipped only when less has passed, also when
\* the 32-bit millisecond clock has wrapped in between
C30_PeriodGate ==
    [][/\ (loop_pc = "gate" /\ loop_pc' = "dist") => since_run >= CTRL_DT_MS
       /\ (loop_pc = "gate" /\ loop_pc' = "cmd") => since_run < CTRL_DT_MS]_vars

\* the body ran when the clock read less than one period: its previous run
\* was before the wrap
C30_Witness ==
    /\ loop_pc = "dist"
    /\ since_run = 0
    /\ last_control_ms >= 0
    /\ last_control_ms < CTRL_DT_MS

(***************************************************************************)
(* Property of the motors against each other, over PairSpec.               *)
(***************************************************************************)
\* motor i started the cycle in NORMAL_OPERATION and its reading is valid
NormalAndValid(i) ==
    /\ prev_state[i] = "NORMAL_OPERATION"
    /\ current_state[i] = "NORMAL_OPERATION"
    /\ current_range[i] \in {"RANGE_FAR", "RANGE_MEDIUM", "RANGE_CLOSE"}
    /\ setpoints[i] >= 0

\* motor j is, after the step, deflating or waiting for a valid reading
OutOfService(j) ==
    \/ current_state[j] = "OUT_OF_RANGE_DEFLATING"
    \/ current_state[j] = "WAITING_FOR_VALID_READING"

\* C28: while another motor enters or stays in OUT_OF_RANGE_DEFLATING or
\* WAITING_FOR_VALID_READING, a motor in NORMAL_OPERATION with a valid
\* reading stays in NORMAL_OPERATION through the state machine, gets the
\* PI command computed from its own setpoint, measurement and integrator,
\* and ends the cycle with that command at its driver
C28_MotorsIndependent ==
    [][\A i \in Motors : \A j \in Motors \ {i} :
          (NormalAndValid(i) /\ OutOfService(j)') =>
              /\ (loop_pc = "sm" /\ loop_pc' = "pi") =>
                    current_state'[i] = "NORMAL_OPERATION"
              /\ (loop_pc = "pi" /\ loop_pc' = "apply") =>
                    last_duty'[i] =
                        PICommand(integrators[i], setpoints[i], pressure_normalized[i])
              /\ (loop_pc = "apply" /\ loop_pc' = "done") =>
                    /\ motor_cmd'[i] = PIMotorCommand(last_duty[i])
                    /\ duty_cycles'[i] = last_duty[i]]_vars

\* motor 1 has been waiting for a valid reading since the cycle before
\* while motor 0, in NORMAL_OPERATION on a Close reading, is driven forward
C28_Witness ==
    /\ loop_pc = "done"
    /\ NormalAndValid(0)
    /\ prev_state[1] = "WAITING_FOR_VALID_READING"
    /\ current_state[1] = "WAITING_FOR_VALID_READING"
    /\ motor_cmd[0] = Forward(DUTY_MAX)
    /\ motor_cmd[1] = Brake

(***************************************************************************)
(* Property of the integrator's time step against the control period,      *)
(* over Spec.  An integrator unit is 1/INTEG_UNIT and an error unit is a   *)
(* milli-percent, so error * dt with dt in milliseconds is                 *)
(* error * dt * (INTEG_UNIT / 1000) thousandths of an integrator unit.     *)
(***************************************************************************)
\* the integrator of motor i ends the step strictly inside its clamp
InsideClamp(i) ==
    /\ integrators'[i] < IntegratorMax
    /\ integrators'[i] > -IntegratorMax

\* C31: the time step of the integrator update is the period at which the
\* control cycle calls the PI step: a step that does not hit the clamp
\* adds error * CTRL_DT_MS / 1000 to the integrator
C31_StepIsControlPeriod ==
    [][\A i \in Motors :
          (loop_pc = "pi" /\ loop_pc' = "apply" /\ InsideClamp(i)) =>
              (integrators'[i] - integrators[i]) * 1000 =
                  (temp_setpoints[i] - temp_pressures[i])
                      * CTRL_DT_MS * (INTEG_UNIT \div 1000)]_vars

(***************************************************************************)
(* Property of SERVO:ANGLE against the sweep switch, over LockSpec.        *)
(***************************************************************************)
\* the handler of SERVO:ANGLE runs its critical section, from the take of
\* configMutex to the give
InServoAngleSection ==
    /\ loop_pc = "cmd_cs" /\ loop_pc' = "cmd_out"
    /\ configMutex = "loop"
    /\ cmd.op = "SERVO:ANGLE"

\* C32: servo_manual_angle changes only by a SERVO:ANGLE command that finds
\* the sweep disabled; with the sweep enabled the command is answered with
\* SWEEP_ACTIVE and the angle keeps its value; the test of sweep_enabled
\* and the write are made in one critical section, the switch being off
\* before and after the write
C32_ManualAngleOnlyWhenDisabled ==
    [][/\ servo_manual_angle' # servo_manual_angle =>
             /\ InServoAngleSection
             /\ ~sweep_enabled
             /\ ~sweep_enabled'
             /\ servo_manual_angle' = cmd.arg
       /\ (InServoAngleSection /\ sweep_enabled) =>
             /\ servo_manual_angle' = servo_manual_angle
             /\ cmd'.reply = "ERR:SWEEP_ACTIVE"
       /\ (InServoAngleSection /\ ~sweep_enabled) =>
             /\ servo_manual_angle' = cmd.arg
             /\ cmd'.reply = "ACK"]_vars

\* SWEEP:DISABLE was followed by SERVO:ANGLE:10, which has just been stored
\* and is about to be acknowledged
C32_Witness ==
    /\ loop_pc = "cmd_out"
    /\ cmd.op = "SERVO:ANGLE"
    /\ cmd.reply = "ACK"
    /\ ~sweep_enabled
    /\ servo_manual_angle = 10

(***************************************************************************)
(* Property of the inputs of the batch PI step, over Spec.                 *)
(***************************************************************************)
\* C33: when the batch PI step is about to run, every motor that is in
\* NORMAL_OPERATION, also one that returned to it in this cycle, has this
\* cycle's setpoint and this cycle's normalized pressure as its inputs
C33_PIInputsOfTheCycle ==
    loop_pc = "pi" =>
        \A i \in Motors :
            current_state[i] = "NORMAL_OPERATION" =>
                /\ temp_setpoints[i] = setpoints[i]
                /\ temp_pressures[i] = pressure_normalized[i]

(***************************************************************************)
(* Property of the commands at the motor drivers, over Spec.               *)
(***************************************************************************)
\* C34: a motor that is not in NORMAL_OPERATION never gets a command
\* derived from the PI step, not even between the PI step and the override
\* loop: the only commands its driver receives are the reverse at
\* REVERSE_DUTY_PCT and the brake
C34_NoPICommandOutsideNormal ==
    [][\A i \in Motors :
          (current_state[i] # "NORMAL_OPERATION" /\ motor_cmd'[i] # motor_cmd[i]) =>
              motor_cmd'[i] \in {Reverse(REVERSE_DUTY_PCT), Brake}]_vars

(***************************************************************************)
(* GuardSpec: steps 3 to 6 of the control cycle (main.cpp lines 549-676)   *)
(* on every value getMinDistance has in its range of type float: a sensor  *)
(* error, distances inside and outside the ranges, the sentinel.  The      *)
(* cycle is entered with the distances drawn instead of read.              *)
(***************************************************************************)
GuardDistances == {READ_ERROR, 80, 150, 500, SENTINEL_DISTANCE}

\* lines 474-580 with the result of getMinDistance drawn for each motor
loopWithDistances ==
    /\ loop_pc = "cmd"
    /\ cycles_left > 0
    /\ cycles_left' = cycles_left - 1
    /\ \E t \in TickSteps :
          /\ millis' = U32Add(millis, t)
          /\ current_time' = U32Add(millis, t)
          /\ last_control_ms' = U32Add(millis, t)
    /\ since_run' = 0
    /\ \E ds \in [Motors -> GuardDistances], pads \in [Motors -> PressureVals],
          p1 \in Pot1Mv, p2 \in Pot2Mv :
          /\ pressure_normalized' = pads
          /\ force_scale' = calculateForceScale(p1)
          /\ distance_scale' = calculateDistanceScale(p2)
          /\ min_distance_cm' = ds
          /\ shared_tof_distances' =
                [k \in DOMAIN shared_tof_distances |->
                    IF k \in Motors THEN ds[k] ELSE shared_tof_distances[k]]
          /\ current_range' =
                [i \in Motors |->
                    getDistanceRange(ds[i], calculateDistanceScale(p2))]
          /\ setpoints' =
                [i \in Motors |->
                    MotorSetpoint(ds[i],
                                  getDistanceRange(ds[i], calculateDistanceScale(p2)),
                                  calculateForceScale(p1))]
          /\ last_good' = ds
    /\ read_ok' = [i \in Motors |-> TRUE]
    /\ ctrl_i' = 0
    /\ loop_pc' = "sm"
    /\ UNCHANGED <<current_state, prev_state, reverse_start_time, duty_cycles,
                   temp_setpoints, temp_pressures, temp_duties, integrators,
                   last_duty, motor_cmd, shared_duty_cycles, Kp, Ki, scenario,
                   shared_ultrasonic_distance>>
    /\ UNCHANGED <<distanceMutex, configMutex, shared_min_distance,
                   shared_best_angle,
                   scanVars, cfgVars>>

GuardInit == InitWith(GuardCycles, 0)

GuardNext ==
    \/ loopWithDistances
    \/ CtrlStateMachine
    \/ CtrlPI
    \/ CtrlApply
    \/ CtrlDelay

GuardSpec == GuardInit /\ [][GuardNext]_vars

(***************************************************************************)
(* Property of the two predicates of the state machine, over GuardSpec.    *)
(***************************************************************************)
\* C35: when the state machine runs, for every motor the predicate that
\* lets it leave OUT_OF_RANGE_DEFLATING or WAITING_FOR_VALID_READING (range
\* neither out of bounds nor unknown, setpoint not negative) is the
\* negation of the one that makes a motor in NORMAL_OPERATION deflate
\* (range out of bounds or setpoint negative), an unknown range coming
\* with a negative setpoint; so no motor is in NORMAL_OPERATION with an
\* unknown range when the PI step runs
C35_ValidIsNotOutOfBounds ==
    \A i \in Motors :
        /\ loop_pc = "sm" =>
              /\ current_range[i] = "RANGE_UNKNOWN" => setpoints[i] < 0
              /\ (/\ current_range[i] # "RANGE_OUT_OF_BOUNDS"
                  /\ current_range[i] # "RANGE_UNKNOWN"
                  /\ setpoints[i] >= 0)
                 <=> ~(current_range[i] = "RANGE_OUT_OF_BOUNDS" \/ setpoints[i] < 0)
        /\ (loop_pc = "pi" /\ current_state[i] = "NORMAL_OPERATION") =>
              current_range[i] # "RANGE_UNKNOWN"

\* a motor that was in NORMAL_OPERATION has started to deflate on a sensor
\* error (unknown range), just before the PI step
C35_Witness ==
    /\ loop_pc = "pi"
    /\ min_distance_cm[0] = READ_ERROR
    /\ current_range[0] = "RANGE_UNKNOWN"
    /\ prev_state[0] = "NORMAL_OPERATION"
    /\ current_state[0] = "OUT_OF_RANGE_DEFLATING"

SentinelOrDistance(v) ==
    v = SENTINEL_DISTANCE \/ (v > 0 /\ v < SENTINEL_DISTANCE)

\* C37: every slot of shared_min_distance holds the sentinel 999 or a
\* positive distance below 999, and a slot that holds a distance never
\* goes back to the sentinel: a sector without valid samples keeps the
\* distance published last
C37_SlotsKeepLastDistance ==
    [][\A s \in Sectors :
          /\ SentinelOrDistance(shared_min_distance[s])
          /\ SentinelOrDistance(shared_min_distance'[s])
          /\ shared_min_distance[s] # SENTINEL_DISTANCE =>
                shared_min_distance'[s] # SENTINEL_DISTANCE]_vars

\* the first sector was published at 80 cm by the forward traversal; the
\* backward traversal has ended with nothing but read errors in that sector
\* and without a write of its slot
C37_Witness ==
    /\ pass = "backward"
    /\ scan_pc = "step"
    /\ angle < min_angle
    /\ shared_min_distance[0] = 80
    /\ pass_writes[0] = 0
    /\ \E k \in DOMAIN pass_samples : SectorOf(pass_samples[k].angle) = 0
    /\ \A k \in DOMAIN pass_samples :
          SectorOf(pass_samples[k].angle) = 0 => pass_samples[k].d = READ_ERROR

(***************************************************************************)
(* Property of the duty handed to telemetry, over Spec.                    *)
(***************************************************************************)
\* C38: at the end of a control cycle the duty in shared_duty_cycles is the
\* command the driver of the motor got last in the cycle: for a motor in
\* NORMAL_OPERATION the command of the PI step, for a motor being reversed
\* -REVERSE_DUTY_PCT, for a braked motor 0
C38_TelemetryDutyIsLastCommand ==
    loop_pc = "done" =>
        \A i \in Motors :
            /\ current_state[i] = "NORMAL_OPERATION" =>
                  /\ shared_duty_cycles[i] = last_duty[i]
                  /\ motor_cmd[i] =
                        IF last_duty[i] > 0 THEN Forward(last_duty[i])
                        ELSE IF last_duty[i] < 0 THEN Reverse(-last_duty[i])
                        ELSE Brake
            /\ motor_cmd[i].dir = "forward" =>
                  shared_duty_cycles[i] = motor_cmd[i].duty
            /\ motor_cmd[i].dir = "reverse" =>
                  shared_duty_cycles[i] = -motor_cmd[i].duty
            /\ motor_cmd[i].dir = "brake" => shared_duty_cycles[i] = 0
            /\ current_state[i] = "OUT_OF_RANGE_DEFLATING" =>
                  shared_duty_cycles[i] = -REVERSE_DUTY_PCT
            /\ current_state[i] = "WAITING_FOR_VALID_READING" =>
                  shared_duty_cycles[i] = 0

\* a cycle ends with a deflating motor for which the PI step had computed
\* full forward drive: telemetry shows the reverse duty of the override
C38_Witness ==
    /\ loop_pc = "done"
    /\ current_state[0] = "OUT_OF_RANGE_DEFLATING"
    /\ last_duty[0] = DUTY_MAX
    /\ motor_cmd[0] = Reverse(REVERSE_DUTY_PCT)
    /\ shared_duty_cycles[0] = -REVERSE_DUTY_PCT

(***************************************************************************)
(* Property of the sector assignment under the configurations the setters  *)
(* accept, over ClassifySpec.                                              *)
(***************************************************************************)
\* the configuration passes the tests of the setters (command_handler.cpp
\* lines 51-61)
SettersAccept ==
    /\ servo_min_angle >= 0
    /\ servo_min_angle < servo_max_angle
    /\ servo_max_angle <= 180
    /\ servo_step >= 1
    /\ servo_step <= 20

\* the servo position is one the forward or the backward loop stops at
VisitedBySweep ==
    /\ angle >= servo_min_angle
    /\ angle <= servo_max_angle
    /\ \/ (angle - servo_min_angle) % servo_step = 0
       \/ (servo_max_angle - angle) % servo_step = 0

\* C39: under every sweep configuration the setters accept, every angle
\* the sweep loop visits is assigned a sector: the sector index is never -1
C39_VisitedAngleHasSector ==
    (scan_pc = "classified" /\ SettersAccept /\ VisitedBySweep) =>
        sector_index # -1

(***************************************************************************)
(* TelemetrySpec: one control cycle against the sweep, step by step, with  *)
(* the entries of shared_tof_distances of the build's motors followed.     *)
(***************************************************************************)
TelemetrySweep == [min |-> 25, max |-> 85, step |-> 20]

TelemetryInit ==
    InitFollowing(BuildMotors, BuildMotors, 0, Kp100, Ki100, Unpublished,
                  SweepCycles, 0, TelemetrySweep, SERVO_MIN_ANGLE)

TelemetryNext == Tick \/ LoopStep \/ SweepStep

TelemetrySpec == TelemetryInit /\ [][TelemetryNext]_vars

(***************************************************************************)
(* Property of the writers of shared_tof_distances, over TelemetrySpec.    *)
(***************************************************************************)
\* the control context runs line 547 for motor i
StoresDistanceOf(i) ==
    /\ loop_pc \in {"dist", "dist_cs"}
    /\ ctrl_i = i
    /\ loop_pc' \in {"dist", "sm"}

\* C40: the control context is the only writer of the entries of
\* shared_tof_distances: an entry changes only when the motor loop stores
\* the distance it read for that motor, and holds that distance until the
\* next control cycle whatever the scan context does in between
C40_ControlIsOnlyWriter ==
    [][\A i \in DOMAIN shared_tof_distances :
          shared_tof_distances'[i] # shared_tof_distances[i] =>
              /\ StoresDistanceOf(i)
              /\ shared_tof_distances'[i] = min_distance_cm'[i]]_vars

=============================================================================
